---------------------------- MODULE Spec2Model ----------------------------
(***************************************************************************)
(* Model of the Playwright dashboard: the test-run output parser and the   *)
(* sanitizer (src/app/api/run-test/route.ts, parseTestResults and          *)
(* sanitizeString), the run-test handler around them (POST), the listing   *)
(* sanitizer (src/app/api/list-tests/route.ts), the list-reporter parser   *)
(* of the run-all handler (src/unnamed/part_003), the pages-API listing    *)
(* handler (src/UI/pages/api/list-tests.ts), the scan of the listing       *)
(* endpoint, and the dashboard page with its run handlers                  *)
(* (src/app/interface/page.tsx).                                           *)
(*                                                                         *)
(* A JavaScript string is a sequence of characters.  A printable ASCII     *)
(* character is the one-character string of itself; every other character  *)
(* is written as a name between angle brackets: "<NUL>" is U+0000,         *)
(* "<GRAVE>" is U+0060 (a string of the language cannot hold that one),    *)
(* "<RSAQUO>" is U+203A (the arrow of the list reporter), "<CHECK>",       *)
(* "<CROSS>" and "<BALLOTX>" are its glyphs U+2713, U+2718 and U+2717.     *)
(* CodePoint gives the code point the regular expressions range over.      *)
(***************************************************************************)
EXTENDS Integers, Sequences, FiniteSets, TLC

VARIABLES
    output,         \* the raw text handed to parseTestResults
    pc,             \* position in parseTestResults
    lines,          \* sanitizedOutput.split('\n')
    hasTestOutput,  \* the presence heuristic
    passed,         \* the overall verdict
    currentError,   \* the error buffer
    currentTest,    \* reference to the open record, or Null
    results,        \* the result list: references to records, in push order
    heap,           \* the record objects allocated so far, by reference
    i,              \* index of the line the for-of loop is at
    subject,        \* the string handed to a sanitizer
    sanitizer,      \* which sanitizeString is being applied, if any yet
    sanitized,      \* what the successive applications returned, in order
    request,        \* the request the run-test handler is serving
    fileContent,    \* what fs.readFile gave the handler
    runner,         \* how the test-runner process ended
    invoked,        \* how many times the test-runner process was started
    response,       \* the response a handler sent, once it has
    files,          \* what fs.readdirSync gave the listing handler
    calls,          \* two parseTestResults calls in progress: text, position, result
    frames,         \* the local bindings of the calls in progress
    testSuites,     \* the dashboard's suites, each with its tests
    isLoading,      \* the dashboard has not had its first listing yet
    isRefreshing,   \* a listing request is under way
    errorShown,     \* the message of the error notification, "" when none (error)
    runningAllTests,\* the dashboard's flag of a whole-project run
    isTestRunning,  \* the dashboard's flag of a run of any kind
    inFlight,       \* the requests the dashboard sent and has no answer to yet
    started         \* how many requests clicks on the dashboard have sent

\* The locals of one parseTestResults call
parseVars == <<output, pc, lines, hasTestOutput, passed, currentError,
               currentTest, results, heap, i>>

sanVars == <<subject, sanitizer, sanitized>>

handlerVars == <<request, fileContent, runner, invoked, response, files>>

callVars == <<calls, frames>>

\* The state of the dashboard page
dashVars == <<testSuites, isLoading, isRefreshing, errorShown, runningAllTests, isTestRunning,
              inFlight, started>>

vars == <<parseVars, sanVars, handlerVars, callVars, dashVars>>

-----------------------------------------------------------------------------
(* Characters *)

Printable ==
    <<" ", "!", "\"", "#", "$", "%", "&", "'", "(", ")", "*", "+", ",", "-", ".", "/", "0",
      "1", "2", "3", "4", "5", "6", "7", "8", "9", ":", ";", "<", "=", ">", "?", "@", "A", "B",
      "C", "D", "E", "F", "G", "H", "I", "J", "K", "L", "M", "N", "O", "P", "Q", "R", "S", "T",
      "U", "V", "W", "X", "Y", "Z", "[", "\\", "]", "^", "_", "<GRAVE>", "a", "b", "c", "d", "e",
      "f", "g", "h", "i", "j", "k", "l", "m", "n", "o", "p", "q", "r", "s", "t", "u", "v", "w",
      "x", "y", "z", "{", "|", "}", "~">>

\* The named characters of the model's alphabet and their code points.
Named ==
    [name \in {"<NUL>", "<BS>", "<TAB>", "<LF>", "<VT>", "<CR>", "<ESC>", "<DEL>", "<NEL>",
               "<NBSP>", "<RSAQUO>", "<CHECK>", "<BALLOTX>", "<CROSS>", "<U+FDD0>",
               "<U+FFFE>", "<U+FFFF>"} |->
        CASE name = "<NUL>" -> 0
          [] name = "<BS>" -> 8
          [] name = "<TAB>" -> 9
          [] name = "<LF>" -> 10
          [] name = "<VT>" -> 11
          [] name = "<CR>" -> 13
          [] name = "<ESC>" -> 27
          [] name = "<DEL>" -> 127
          [] name = "<NEL>" -> 133
          [] name = "<NBSP>" -> 160
          [] name = "<RSAQUO>" -> 8250
          [] name = "<CHECK>" -> 10003
          [] name = "<BALLOTX>" -> 10007
          [] name = "<CROSS>" -> 10008
          [] name = "<U+FDD0>" -> 64976
          [] name = "<U+FFFE>" -> 65534
          [] name = "<U+FFFF>" -> 65535]

Alphabet == DOMAIN Named \cup {Printable[k] : k \in 1..Len(Printable)}

\* The code point of each character of the alphabet
CodePoint ==
    [c \in Alphabet |->
        IF c \in DOMAIN Named
        THEN Named[c]
        ELSE 31 + (CHOOSE k \in 1..Len(Printable) : Printable[k] = c)]

LF == "<LF>"

IsDigit(c) == c \in {"0", "1", "2", "3", "4", "5", "6", "7", "8", "9"}

\* The characters the regular-expression dot does not match.
IsLineTerminator(c) == c \in {"<LF>", "<CR>"}

\* The characters String.prototype.trim strips.
IsWhiteSpace(c) == c \in {" ", "<TAB>", "<LF>", "<VT>", "<CR>", "<NBSP>"}

-----------------------------------------------------------------------------
(* String operations of the JavaScript library, as the parser uses them *)

\* s.startsWith(t, p - 1)
StartsWithAt(s, p, t) ==
    /\ p >= 1
    /\ p + Len(t) - 1 <= Len(s)
    /\ \A k \in 1..Len(t) : s[p + k - 1] = t[k]

\* s.includes(t), for a non-empty t
Includes(s, t) ==
    \E p \in 1..(Len(s) - Len(t) + 1) :
        s[p] = t[1] /\ \A k \in 2..Len(t) : s[p + k - 1] = t[k]

\* The lower-case form of each character: A-Z map to a-z, the other
\* characters of the alphabet have none and stay.
LowerChar ==
    [c \in Alphabet |->
        IF CodePoint[c] \in 65..90 THEN Printable[CodePoint[c] + 32 - 31] ELSE c]

\* The characters that have a lower-case form other than themselves
UpperCase == {c \in Alphabet : LowerChar[c] # c}

Lower(c) == IF c \in UpperCase THEN LowerChar[c] ELSE c

\* s.toLowerCase()
ToLowerCase(s) == [k \in 1..Len(s) |-> Lower(s[k])]

\* s.trim()
Trim(s) ==
    LET keep == {k \in 1..Len(s) : ~IsWhiteSpace(s[k])}
    IN  IF keep = {}
        THEN <<>>
        ELSE LET first == CHOOSE k \in keep : \A j \in keep : k <= j
                 last == CHOOSE k \in keep : \A j \in keep : j <= k
             IN  SubSeq(s, first, last)

\* s.split('\n')
RECURSIVE Split(_)
Split(s) ==
    LET nl == {k \in 1..Len(s) : s[k] = LF}
    IN  IF nl = {}
        THEN <<s>>
        ELSE LET first == CHOOSE k \in nl : \A j \in nl : k <= j
             IN  <<SubSeq(s, 1, first - 1)>> \o Split(SubSeq(s, first + 1, Len(s)))

\* path.basename(p) of the posix path module (the server and the test runner
\* whose output is parsed run on the same host, so paths and separator
\* agree): the last segment of p, trailing slashes dropped.
basename(p) ==
    LET body == {k \in 1..Len(p) : p[k] # "/"}
    IN  IF body = {}
        THEN <<>>
        ELSE LET end == CHOOSE k \in body : \A j \in body : j <= k
                 seps == {k \in 1..end : p[k] = "/"}
                 start == IF seps = {}
                          THEN 0
                          ELSE CHOOSE k \in seps : \A j \in seps : j <= k
             IN  SubSeq(p, start + 1, end)

-----------------------------------------------------------------------------
(* sanitizeString *)

\* The class [\u0000-\u0008\u000B-\u000C\u000E-\u001F\u007F-\u009F]
InControlClass(c) ==
    LET cp == CodePoint[c]
    IN  \/ cp \in 0..8
        \/ cp \in 11..12
        \/ cp \in 14..31
        \/ cp \in 127..159

\* The characters of the alphabet each of the two replace calls removes
NulChars == {c \in Alphabet : CodePoint[c] = 0}

ControlChars == {c \in Alphabet : InControlClass(c)}

IsNotNul(c) == c \notin NulChars

IsNotControl(c) == c \notin ControlChars

\* s with its first character outside keep removed: a replace without the g flag
RemoveFirst(s, keep) ==
    LET hit == {k \in 1..Len(s) : s[k] \notin keep}
    IN  IF hit = {}
        THEN s
        ELSE LET first == CHOOSE k \in hit : \A j \in hit : k <= j
             IN  SubSeq(s, 1, first - 1) \o SubSeq(s, first + 1, Len(s))

\* sanitizeString with both regular expressions lacking the g flag
sanitizeString_FirstOnly(str) ==
    RemoveFirst(RemoveFirst(str, Alphabet \ NulChars), Alphabet \ ControlChars)

\* sanitizeString that puts a space where it removes a control character
sanitizeString_Blanking(str) ==
    LET s == SelectSeq(str, IsNotNul)
    IN  [k \in 1..Len(s) |-> IF s[k] \in ControlChars THEN " " ELSE s[k]]

sanitizeString(str) == SelectSeq(SelectSeq(str, IsNotNul), IsNotControl)

-----------------------------------------------------------------------------
(* The regular expressions of parseTestResults.  Each is computed the way a  *)
(* backtracking matcher finds its match: the leftmost start, every lazy     *)
(* group as short as a complete match allows, every greedy run as long.     *)

Min(S) == CHOOSE k \in S : \A j \in S : k <= j

\* The positions of s the dot does not match
Stops(s) == {k \in 1..Len(s) : IsLineTerminator(s[k])}

\* The first position at or after from that the dot does not match, given
\* the set stops of such positions: a line terminator, or the end of the
\* string.  A lazy (.*?) that starts at from can end before any position
\* up to this one.
DotLimit(s, stops, from) ==
    LET later == {k \in stops : k >= from}
    IN  IF later = {} THEN Len(s) + 1 ELSE Min(later)

\* The end of the longest run of digits that starts at p (p - 1 when empty): \d+
DigitRunEnd(s, p) ==
    CHOOSE q \in (p - 1)..Len(s) :
        /\ \A k \in p..q : IsDigit(s[k])
        /\ (q = Len(s) \/ ~IsDigit(s[q + 1]))

S_BracketGap == <<"]", " ", "[">>
S_BracketArrow == <<"]", " ", "<RSAQUO>", " ">>
S_Arrow == <<" ", "<RSAQUO>", " ">>

\* /\[(.*?)\] \[(.*?)\] › (.*?):(\d+):(\d+) › (.*?)$/
\* Positions: s is the first "[", p1 the "] [" after group 1, p2 the "] › "
\* after group 2, p3 the ":" after group 3; the two digit runs and " › "
\* follow, and the last group runs to the end of the line.
TitleStart(s, stops, p3) ==
    IF p3 <= Len(s) /\ s[p3] = ":"
    THEN LET d1 == DigitRunEnd(s, p3 + 1)
             d2 == DigitRunEnd(s, d1 + 2)
         IN  IF /\ d1 >= p3 + 1
                /\ d1 + 1 <= Len(s)
                /\ s[d1 + 1] = ":"
                /\ d2 >= d1 + 2
                /\ StartsWithAt(s, d2 + 1, S_Arrow)
                /\ DotLimit(s, stops, d2 + 4) = Len(s) + 1
             THEN d2 + 4
             ELSE 0
    ELSE 0

IsGroup3End(s, stops, p3) == TitleStart(s, stops, p3) # 0

IsGroup2End(s, stops, p2) ==
    /\ p2 <= Len(s)
    /\ s[p2] = "]"
    /\ StartsWithAt(s, p2, S_BracketArrow)
    /\ \E p3 \in (p2 + 4)..DotLimit(s, stops, p2 + 4) : IsGroup3End(s, stops, p3)

IsGroup1End(s, stops, p1) ==
    /\ p1 <= Len(s)
    /\ s[p1] = "]"
    /\ StartsWithAt(s, p1, S_BracketGap)
    /\ \E p2 \in (p1 + 3)..DotLimit(s, stops, p1 + 3) : IsGroup2End(s, stops, p2)

IsMatchStart(s, stops, start) ==
    /\ s[start] = "["
    /\ \E p1 \in (start + 1)..DotLimit(s, stops, start + 1) : IsGroup1End(s, stops, p1)

\* line.match(...) is not null
IsTestStart(line) ==
    LET stops == Stops(line)
    IN  \E start \in 1..Len(line) : IsMatchStart(line, stops, start)

\* The groups of the match, for a line with IsTestStart(line)
testStartMatch(line) ==
    LET stops == Stops(line)
        start == Min({k \in 1..Len(line) : IsMatchStart(line, stops, k)})
        p1 == Min({k \in (start + 1)..DotLimit(line, stops, start + 1) :
                    IsGroup1End(line, stops, k)})
        p2 == Min({k \in (p1 + 3)..DotLimit(line, stops, p1 + 3) :
                    IsGroup2End(line, stops, k)})
        p3 == Min({k \in (p2 + 4)..DotLimit(line, stops, p2 + 4) :
                    IsGroup3End(line, stops, k)})
    IN  [progress |-> SubSeq(line, start + 1, p1 - 1),
         browser |-> SubSeq(line, p1 + 3, p2 - 1),
         file |-> SubSeq(line, p2 + 4, p3 - 1),
         testName |-> SubSeq(line, TitleStart(line, stops, p3), Len(line))]

\* /\(([\d.]+m?s)\)/ : the end of group 1 for a match that starts at p, or 0
IsDigitOrDot(c) == IsDigit(c) \/ c = "."

\* The end of the longest run of digits and dots that starts at p: [\d.]+
DigitDotRunEnd(s, p) ==
    CHOOSE q \in (p - 1)..Len(s) :
        /\ \A k \in p..q : IsDigitOrDot(s[k])
        /\ (q = Len(s) \/ ~IsDigitOrDot(s[q + 1]))

DurationEnd(s, p) ==
    IF s[p] = "("
    THEN LET q == DigitDotRunEnd(s, p + 1)
         IN  IF q < p + 1 THEN 0
             ELSE IF StartsWithAt(s, q + 1, <<"m", "s", ")">>) THEN q + 2
             ELSE IF StartsWithAt(s, q + 1, <<"s", ")">>) THEN q + 1
             ELSE 0
    ELSE 0

DurationStarts(s) == {p \in 1..Len(s) : DurationEnd(s, p) # 0}

HasDuration(line) == \E p \in 1..Len(line) : DurationEnd(line, p) # 0

\* durationMatch[1], for a line with HasDuration(line)
durationMatch(line) ==
    LET p == Min(DurationStarts(line))
    IN  SubSeq(line, p + 1, DurationEnd(line, p))

-----------------------------------------------------------------------------
(* Literals of parseTestResults *)

S_test == <<"t", "e", "s", "t">>
S_describe == <<"d", "e", "s", "c", "r", "i", "b", "e">>
S_expect == <<"e", "x", "p", "e", "c", "t">>
S_passed == <<"p", "a", "s", "s", "e", "d">>
S_failed == <<"f", "a", "i", "l", "e", "d">>
S_error == <<"e", "r", "r", "o", "r">>
S_timeout == <<"t", "i", "m", "e", "o", "u", "t">>
S_retry == <<"r", "e", "t", "r", "y", " ", "#">>
S_Error == <<"E", "r", "r", "o", "r", ":">>
S_expectCall == <<"e", "x", "p", "e", "c", "t", "(">>
S_TimedOut == <<"T", "i", "m", "e", "d", " ", "o", "u", "t">>
S_skipped == <<"s", "k", "i", "p", "p", "e", "d">>

ZeroDuration ==
    <<"0", "m", "s">>

GenericTestName ==
    <<"T", "e", "s", "t", " ", "E", "x", "e", "c", "u", "t", "i", "o", "n">>

TimeoutMessage ==
    <<"T", "e", "s", "t", " ", "e", "x", "e", "c", "u", "t", "i", "o", "n", " ", "t", "i", "m",
      "e", "d", " ", "o", "u", "t", " ", "(", "a", "s", " ", "c", "o", "n", "f", "i", "g", "u",
      "r", "e", "d", " ", "i", "n", " ", "P", "l", "a", "y", "w", "r", "i", "g", "h", "t", ")">>

\* null, as the value of currentTest
Null == 0

\* undefined, as the value of an optional string field
Undefined == <<"undefined">>

-----------------------------------------------------------------------------
(* The inputs: outputs of at most MaxLines lines, each drawn from Pool *)

MaxLines == 3

\* a test-start line that ends with a parenthesized duration
LineStartDuration ==
    <<"[", "1", "/", "2", "]", " ", "[", "c", "h", "r", "o", "m", "i", "u", "m", "]", " ",
      "<RSAQUO>", " ", "t", "e", "s", "t", "s", "/", "a", ".", "s", "p", "e", "c", ".", "t",
      "s", ":", "3", ":", "5", " ", "<RSAQUO>", " ", "M", "y", " ", "T", "e", "s", "t", " ",
      "(", "1", "2", "0", "m", "s", ")">>

\* a test-start line with none of the presence tokens
LineStartPlain ==
    <<"[", "1", "/", "1", "]", " ", "[", "c", "h", "r", "o", "m", "i", "u", "m", "]", " ",
      "<RSAQUO>", " ", "e", "2", "e", "/", "a", ".", "s", "p", "e", "c", ".", "t", "s", ":",
      "3", ":", "5", " ", "<RSAQUO>", " ", "L", "o", "g", "i", "n">>

\* a test-start line whose title holds the word Error
LineStartErrorTitle ==
    <<"[", "2", "/", "2", "]", " ", "[", "c", "h", "r", "o", "m", "i", "u", "m", "]", " ",
      "<RSAQUO>", " ", "t", "e", "s", "t", "s", "/", "b", ".", "s", "p", "e", "c", ".", "t",
      "s", ":", "9", ":", "1", " ", "<RSAQUO>", " ", "E", "r", "r", "o", "r", " ", "b", "a",
      "n", "n", "e", "r">>

\* an indented error line
LineError ==
    <<" ", " ", "E", "r", "r", "o", "r", ":", " ", "a", "s", "s", "e", "r", "t", "i", "o", "n",
      " ", "f", "a", "i", "l", "e", "d">>

\* a retry marker
LineRetry ==
    <<"r", "e", "t", "r", "y", " ", "#", "1">>

\* a line that is a retry marker and holds an error
LineRetryError ==
    <<"r", "e", "t", "r", "y", " ", "#", "2", " ", "E", "r", "r", "o", "r", ":", " ", "a", "s",
      "s", "e", "r", "t", "i", "o", "n", " ", "f", "a", "i", "l", "e", "d">>

\* a duration line
LineDuration ==
    <<" ", " ", "o", "k", " ", "(", "2", ".", "5", "s", ")">>

\* a line that holds an error and a parenthesized duration
LineErrorDuration ==
    <<"E", "r", "r", "o", "r", ":", " ", "s", "l", "o", "w", " ", "(", "3", "0", "m", "s", ")">>

\* a failed assertion of the expect API
LineExpect ==
    <<" ", " ", "e", "x", "p", "e", "c", "t", "(", "x", ")", ".", "t", "o", "B", "e", "(", "1",
      ")">>

\* a timeout marker
LineTimedOut ==
    <<"T", "i", "m", "e", "d", " ", "o", "u", "t">>

\* a skip marker
LineSkipped ==
    <<"1", " ", "s", "k", "i", "p", "p", "e", "d">>

\* a coloured summary line: presence token, no marker
LinePassed ==
    <<"<ESC>", "[", "3", "2", "m", "1", " ", "p", "a", "s", "s", "e", "d", "<ESC>", "[", "0",
      "m">>

\* a line with no recognizable token
LineHello ==
    <<"h", "e", "l", "l", "o", " ", "w", "o", "r", "l", "d">>

\* a NUL inside the word passed
LineHiddenToken ==
    <<"1", " ", "p", "a", "s", "<NUL>", "s", "e", "d">>

\* the empty line (what follows a trailing newline)
LineEmpty ==
    <<>>

Pool ==
    {LineStartDuration,
     LineStartPlain,
     LineStartErrorTitle,
     LineError,
     LineRetry,
     LineRetryError,
     LineDuration,
     LineErrorDuration,
     LineExpect,
     LineTimedOut,
     LineSkipped,
     LinePassed,
     LineHello,
     LineHiddenToken,
     LineEmpty}

RECURSIVE Join(_)
Join(ls) ==
    IF Len(ls) = 1 THEN ls[1] ELSE ls[1] \o <<LF>> \o Join(Tail(ls))

Outputs == {Join(ls) : ls \in UNION {[1..n -> Pool] : n \in 1..MaxLines}}

-----------------------------------------------------------------------------
(* parseTestResults: the pieces of its body *)

PresenceTokens == {S_test, S_describe, S_expect, S_passed, S_failed}

\* lines.some(line => line.includes('test') || ... || line.includes('failed'))
HasTestOutput(ls) ==
    \E k \in 1..Len(ls) :
        \/ Includes(ls[k], S_test)
        \/ Includes(ls[k], S_describe)
        \/ Includes(ls[k], S_expect)
        \/ Includes(ls[k], S_passed)
        \/ Includes(ls[k], S_failed)

\* AllPassed without the check for 'error'
AllPassed_NoErrorCheck(sanitizedOutput) ==
    LET lower == ToLowerCase(sanitizedOutput)
    IN  /\ ~Includes(lower, S_failed)
        /\ ~Includes(lower, S_timeout)

\* !s.toLowerCase().includes('failed') && !...('error') && !...('timeout')
AllPassed(sanitizedOutput) ==
    LET lower == ToLowerCase(sanitizedOutput)
    IN  /\ ~Includes(lower, S_failed)
        /\ ~Includes(lower, S_error)
        /\ ~Includes(lower, S_timeout)

\* NewTest with the record opened as failed
NewTest_DefaultFailed(m) ==
    [file |-> basename(m.file),
     testName |-> Trim(m.testName),
     status |-> "failed",
     duration |-> ZeroDuration,
     browserName |-> m.browser,
     retries |-> 0,
     error |-> Undefined]

\* The record a test-start line opens
NewTest(m) ==
    [file |-> basename(m.file),
     testName |-> Trim(m.testName),
     status |-> "passed",
     duration |-> ZeroDuration,
     browserName |-> m.browser,
     retries |-> 0,
     error |-> Undefined]

\* CommitOpen with the push forgotten
CommitOpen_Forgotten(res, ct) == res

\* CommitOpen with the record put at the front of the list
CommitOpen_Prepend(res, ct) == IF ct # Null THEN <<ct>> \o res ELSE res

\* CommitOpen with the record pushed twice
CommitOpen_Twice(res, ct) == IF ct # Null THEN Append(Append(res, ct), ct) ELSE res

\* if (currentTest) results.push(currentTest)
CommitOpen(res, ct) == IF ct # Null THEN Append(res, ct) ELSE res

\* RetryCond without the check that a record is open
RetryCond_NoNullCheck(line, ct) == Includes(line, S_retry)

\* RetryCond that lets a line holding "Error:" go on to the later branches
RetryCond_YieldsToError(line, ct) ==
    Includes(line, S_retry) /\ ct # Null /\ ~Includes(line, S_Error)

\* The guards of the branches of the loop body, in the order they are tried
RetryCond(line, ct) == Includes(line, S_retry) /\ ct # Null

DurationCond(line, ct) == HasDuration(line) /\ ct # Null

\* ErrorCond without the check that a record is open
ErrorCond_NoNullCheck(line, ct, err) ==
    Includes(line, S_Error) \/ Includes(line, S_expectCall) \/ err # <<>>

\* ErrorCond that forgets the fragments already collected
ErrorCond_NoBuffer(line, ct, err) ==
    /\ ct # Null
    /\ (Includes(line, S_Error) \/ Includes(line, S_expectCall))

ErrorCond(line, ct, err) ==
    /\ ct # Null
    /\ (Includes(line, S_Error) \/ Includes(line, S_expectCall) \/ err # <<>>)

TimeoutCond(line, ct) == ct # Null /\ Includes(line, S_TimedOut)

SkipCond(line, ct) == ct # Null /\ Includes(line, S_skipped)

\* IncrementRetries with the increment lost
IncrementRetries_Lost(rec) == rec

\* The writes of the branches to the open record
IncrementRetries(rec) == [rec EXCEPT !.retries = @ + 1]

\* SetDuration that keeps a duration already recorded
SetDuration_KeepFirst(rec, line) ==
    IF rec.duration = ZeroDuration THEN [rec EXCEPT !.duration = durationMatch(line)] ELSE rec

SetDuration(rec, line) == [rec EXCEPT !.duration = durationMatch(line)]

\* AppendError without the newline after the line
AppendError_NoNewline(err, line) == err \o Trim(line)

\* AppendError with the line appended untrimmed
AppendError_Untrimmed(err, line) == err \o line \o <<LF>>

\* currentError += line.trim() + '\n'
AppendError(err, line) == err \o Trim(line) \o <<LF>>

\* RecordError with the status left as it was
RecordError_KeepStatus(rec, err) == [rec EXCEPT !.error = Trim(err)]

\* RecordError with the buffer stored untrimmed
RecordError_Untrimmed(rec, err) == [rec EXCEPT !.status = "failed", !.error = err]

RecordError(rec, err) == [rec EXCEPT !.status = "failed", !.error = Trim(err)]

\* RecordTimeout with the error text left as it was
RecordTimeout_KeepError(rec) == [rec EXCEPT !.status = "timedOut"]

RecordTimeout(rec) == [rec EXCEPT !.status = "timedOut", !.error = TimeoutMessage]

\* RecordSkip that also resets the duration
RecordSkip_ResetDuration(rec) == [rec EXCEPT !.status = "skipped", !.duration = ZeroDuration]

RecordSkip(rec) == [rec EXCEPT !.status = "skipped"]

\* GenericResult with the status always failed
GenericResult_AlwaysFailed(pass, err) ==
    [file |-> <<>>,
     testName |-> GenericTestName,
     status |-> "failed",
     duration |-> ZeroDuration,
     error |-> IF err # <<>> THEN err ELSE Undefined]

\* The record pushed when no test-start line was found
GenericResult(pass, err) ==
    [file |-> <<>>,
     testName |-> GenericTestName,
     status |-> IF pass THEN "passed" ELSE "failed",
     duration |-> ZeroDuration,
     error |-> IF err # <<>> THEN err ELSE Undefined]

\* NeedsGeneric without the presence heuristic
NeedsGeneric_Always(res, has) == Len(res) = 0

\* results.length === 0 && hasTestOutput
NeedsGeneric(res, has) == Len(res) = 0 /\ has

-----------------------------------------------------------------------------
(* parseTestResults as a state machine *)

\* The variables of the operations that are not running
SanIdle == subject = <<>> /\ sanitizer = "none" /\ sanitized = <<>>

HandlerIdle ==
    /\ request = Null
    /\ fileContent = Null
    /\ runner = Null
    /\ invoked = 0
    /\ response = Null
    /\ files = Null

CallsIdle == calls = <<>> /\ frames = <<>>

DashIdle ==
    /\ testSuites = <<>>
    /\ isLoading = FALSE
    /\ isRefreshing = FALSE
    /\ errorShown = ""
    /\ runningAllTests = FALSE
    /\ isTestRunning = FALSE
    /\ inFlight = {}
    /\ started = 0

ParseIdle ==
    /\ output = <<>>
    /\ pc = "idle"
    /\ lines = <<>>
    /\ hasTestOutput = FALSE
    /\ passed = FALSE
    /\ currentError = <<>>
    /\ currentTest = Null
    /\ results = <<>>
    /\ heap = <<>>
    /\ i = 1

Init ==
    /\ output \in Outputs
    /\ pc = "start"
    /\ lines = <<>>
    /\ hasTestOutput = FALSE
    /\ passed = FALSE
    /\ currentError = <<>>
    /\ currentTest = Null
    /\ results = <<>>
    /\ heap = <<>>
    /\ i = 1
    /\ SanIdle
    /\ HandlerIdle
    /\ CallsIdle
    /\ DashIdle

\* Lines 23-45: sanitize, split, the presence heuristic and the verdict
Begin ==
    /\ pc = "start"
    /\ LET sanitizedOutput == sanitizeString(output)
           ls == Split(sanitizedOutput)
           has == HasTestOutput(ls)
       IN  /\ lines' = ls
           /\ hasTestOutput' = has
           /\ passed' = IF has THEN AllPassed(sanitizedOutput) ELSE FALSE
           /\ pc' = IF has THEN "loop" ELSE "return"
    /\ UNCHANGED <<dashVars, sanVars, handlerVars, callVars, output, currentError, currentTest, results, heap, i>>

InLoop == pc = "loop" /\ i <= Len(lines)

\* A write through currentTest: it throws a TypeError when currentTest is
\* null, and otherwise updates the record and the loop goes to the next line.
WriteOpen(rec) ==
    IF currentTest = Null
    THEN pc' = "threw" /\ UNCHANGED <<heap, i>>
    ELSE /\ heap' = [heap EXCEPT ![currentTest] = rec]
         /\ i' = i + 1
         /\ pc' = "loop"

\* The open record (read after the guard found currentTest not null)
Open == IF currentTest = Null THEN [status |-> "null"] ELSE heap[currentTest]

\* Each branch below is taken when its own condition holds and the branches
\* tried before it have all let the line through (each of them ends with
\* continue); the conjuncts are the conditions of the if chain.

\* TestStart without the reset of the error buffer
TestStart_KeepsBuffer ==
    /\ InLoop
    /\ IsTestStart(lines[i])
    /\ results' = CommitOpen(results, currentTest)
    /\ heap' = Append(heap, NewTest(testStartMatch(lines[i])))
    /\ currentTest' = Len(heap) + 1
    /\ i' = i + 1
    /\ UNCHANGED <<dashVars, sanVars, handlerVars, callVars, output, pc, lines, hasTestOutput, passed, currentError>>

\* Lines 49-67
TestStart ==
    /\ InLoop
    /\ IsTestStart(lines[i])
    /\ results' = CommitOpen(results, currentTest)
    /\ heap' = Append(heap, NewTest(testStartMatch(lines[i])))
    /\ currentTest' = Len(heap) + 1
    /\ currentError' = <<>>
    /\ i' = i + 1
    /\ UNCHANGED <<dashVars, sanVars, handlerVars, callVars, output, pc, lines, hasTestOutput, passed>>

\* Lines 69-73
Retry ==
    /\ InLoop
    /\ RetryCond(lines[i], currentTest)
    /\ ~IsTestStart(lines[i])
    /\ WriteOpen(IncrementRetries(Open))
    /\ UNCHANGED <<dashVars, sanVars, handlerVars, callVars, output, lines, hasTestOutput, passed, currentError,
                   currentTest, results>>

\* Lines 75-80
Duration ==
    /\ InLoop
    /\ DurationCond(lines[i], currentTest)
    /\ ~RetryCond(lines[i], currentTest)
    /\ ~IsTestStart(lines[i])
    /\ WriteOpen(SetDuration(Open, lines[i]))
    /\ UNCHANGED <<dashVars, sanVars, handlerVars, callVars, output, lines, hasTestOutput, passed, currentError,
                   currentTest, results>>

\* Lines 82-88
ErrorFragment ==
    /\ InLoop
    /\ ErrorCond(lines[i], currentTest, currentError)
    /\ ~DurationCond(lines[i], currentTest)
    /\ ~RetryCond(lines[i], currentTest)
    /\ ~IsTestStart(lines[i])
    /\ currentError' = AppendError(currentError, lines[i])
    /\ WriteOpen(RecordError(Open, currentError'))
    /\ UNCHANGED <<dashVars, sanVars, handlerVars, callVars, output, lines, hasTestOutput, passed, currentTest, results>>

\* Lines 90-95
Timeout ==
    /\ InLoop
    /\ TimeoutCond(lines[i], currentTest)
    /\ ~ErrorCond(lines[i], currentTest, currentError)
    /\ ~DurationCond(lines[i], currentTest)
    /\ ~RetryCond(lines[i], currentTest)
    /\ ~IsTestStart(lines[i])
    /\ WriteOpen(RecordTimeout(Open))
    /\ UNCHANGED <<dashVars, sanVars, handlerVars, callVars, output, lines, hasTestOutput, passed, currentError,
                   currentTest, results>>

\* Lines 97-101
Skip ==
    /\ InLoop
    /\ SkipCond(lines[i], currentTest)
    /\ ~TimeoutCond(lines[i], currentTest)
    /\ ~ErrorCond(lines[i], currentTest, currentError)
    /\ ~DurationCond(lines[i], currentTest)
    /\ ~RetryCond(lines[i], currentTest)
    /\ ~IsTestStart(lines[i])
    /\ WriteOpen(RecordSkip(Open))
    /\ UNCHANGED <<dashVars, sanVars, handlerVars, callVars, output, lines, hasTestOutput, passed, currentError,
                   currentTest, results>>

\* A line that takes no branch: the loop body falls through
Unrecognized ==
    /\ InLoop
    /\ ~IsTestStart(lines[i])
    /\ ~RetryCond(lines[i], currentTest)
    /\ ~DurationCond(lines[i], currentTest)
    /\ ~ErrorCond(lines[i], currentTest, currentError)
    /\ ~TimeoutCond(lines[i], currentTest)
    /\ ~SkipCond(lines[i], currentTest)
    /\ i' = i + 1
    /\ UNCHANGED <<dashVars, sanVars, handlerVars, callVars, output, pc, lines, hasTestOutput, passed, currentError,
                   currentTest, results, heap>>

\* Lines 104-107: the loop is over, the open record is pushed
LoopEnd ==
    /\ pc = "loop"
    /\ i > Len(lines)
    /\ results' = CommitOpen(results, currentTest)
    /\ pc' = "return"
    /\ UNCHANGED <<dashVars, sanVars, handlerVars, callVars, output, lines, hasTestOutput, passed, currentError,
                   currentTest, heap, i>>

\* Lines 109-121: the generic record, and the return
Return ==
    /\ pc = "return"
    /\ IF NeedsGeneric(results, hasTestOutput)
       THEN /\ heap' = Append(heap, GenericResult(passed, currentError))
            /\ results' = Append(results, Len(heap) + 1)
       ELSE UNCHANGED <<heap, results>>
    /\ pc' = "done"
    /\ UNCHANGED <<dashVars, sanVars, handlerVars, callVars, output, lines, hasTestOutput, passed, currentError,
                   currentTest, i>>

Next ==
    \/ Begin
    \/ TestStart
    \/ Retry
    \/ Duration
    \/ ErrorFragment
    \/ Timeout
    \/ Skip
    \/ Unrecognized
    \/ LoopEnd
    \/ Return

Spec == Init /\ [][Next]_vars

\* The value parseTestResults returns: { passed, results }
Returned == [passed |-> passed, results |-> [k \in 1..Len(results) |-> heap[results[k]]]]

-----------------------------------------------------------------------------
(* Vocabulary of the properties *)

S_ErrorAssertionFailed == <<"E", "r", "r", "o", "r", ":", " ", "a", "s", "s", "e", "r", "t", "i", "o", "n", " ", "f", "a", "i", "l", "e", "d">>

S_a_spec_ts == <<"a", ".", "s", "p", "e", "c", ".", "t", "s">>

S_MyTest == <<"M", "y", " ", "T", "e", "s", "t">>

S_120ms == <<"1", "2", "0", "m", "s">>

S_Login == <<"L", "o", "g", "i", "n">>

S_MyTestWithDuration == <<"M", "y", " ", "T", "e", "s", "t", " ", "(", "1", "2", "0", "m", "s", ")">>

S_TestExecution == <<"T", "e", "s", "t", " ", "E", "x", "e", "c", "u", "t", "i", "o", "n">>

S_0ms == <<"0", "m", "s">>

Statuses == {"passed", "failed", "skipped", "timedOut"}

\* The n-th record of the result list
Record(n) == heap[results[n]]

\* The positions of the test-start lines, in increasing order; its length is
\* the number of test-start lines, its n-th element the place of the n-th
IsStartAt(k) == IsTestStart(lines[k])

Starts == SelectSeq([k \in 1..Len(lines) |-> k], IsStartAt)

NumStarts == Len(Starts)

\* The lines after the n-th test-start line and before the next one (or the
\* end), st being the positions of the test-start lines
LinesAfter(st, n) ==
    (st[n] + 1)..((IF n < Len(st) THEN st[n + 1] ELSE Len(lines) + 1) - 1)

\* s holds one of the presence tokens, case-sensitively
HoldsPresenceToken(s) == \E t \in PresenceTokens : Includes(s, t)

\* Some line of the sanitized output holds a presence token
PresenceFired == \E k \in 1..Len(lines) : HoldsPresenceToken(lines[k])

\* s holds the lower-case word w, whatever the case of the letters of s
HoldsIgnoringCase(s, w) ==
    \E p \in 1..(Len(s) - Len(w) + 1) : \A k \in 1..Len(w) : Lower(s[p + k - 1]) = w[k]

\* The record r has been pushed to the result list
Committed(r) == \E k \in 1..Len(results) : results[k] = r

-----------------------------------------------------------------------------
(* C1: parseTestResults is total: on every input, the empty string and      *)
(* inputs with no recognizable line included, the scan ends without         *)
(* throwing and returns a verdict and a list of records (possibly empty).   *)
(* Stated as: no state has thrown (pc is never "threw", the state a write   *)
(* through a null currentTest leads to); the loop index stays within the    *)
(* lines; every step brings the end nearer (StepsLeft bounds the steps to   *)
(* come, so the scan ends); the final state holds a well-formed result.     *)
StepsLeft ==
    CASE pc = "start" -> Len(output) + 4
      [] pc = "loop" -> Len(lines) - i + 3
      [] pc = "return" -> 1
      [] OTHER -> 0

C1_Total ==
    /\ [](/\ pc \in {"start", "loop", "return", "done"}
          /\ pc = "loop" => i \in 1..(Len(lines) + 1)
          /\ pc = "done" =>
                 /\ passed \in BOOLEAN
                 /\ \A n \in 1..Len(results) :
                        results[n] \in 1..Len(heap) /\ Record(n).status \in Statuses)
    /\ [][StepsLeft' < StepsLeft /\ StepsLeft' >= 0]_vars

\* The empty string has been parsed: no record, verdict false.
C1_Witness == pc = "done" /\ output = <<>> /\ results = <<>> /\ passed = FALSE

(* C2: the start line "[1/2] [chromium] > tests/a.spec.ts:3:5 > My Test      *)
(* (120ms)" followed by a newline and the end of input yields exactly one    *)
(* record: file a.spec.ts, testName My Test, duration 120ms, status passed, *)
(* retries 0.                                                               *)
C2_Scenario ==
    (pc = "done" /\ output = LineStartDuration \o <<LF>>) =>
        /\ Len(results) = 1
        /\ Record(1).file = S_a_spec_ts
        /\ Record(1).testName = S_MyTest
        /\ Record(1).duration = S_120ms
        /\ Record(1).status = "passed"
        /\ Record(1).retries = 0

(* C3: an input that is exactly one test-start line followed by the end of  *)
(* input yields a record for that test, with status passed, whatever the    *)
(* file path and the title of the line are.                                 *)
OneStartLine == Len(lines) = 1 /\ IsTestStart(lines[1])

OneRecordPassed ==
    /\ Len(results) = 1
    /\ Record(1).status = "passed"
    /\ Record(1).testName = Trim(testStartMatch(lines[1]).testName)

C3_Original == (pc = "done" /\ OneStartLine) => OneRecordPassed

\* C3 as amended: the record is returned when the start line holds one of
\* the presence tokens; a start line that holds none yields no record.
C3_Amended ==
    (pc = "done" /\ OneStartLine) =>
        IF HoldsPresenceToken(lines[1]) THEN OneRecordPassed ELSE results = <<>>

C3_Witness ==
    /\ pc = "done"
    /\ OneStartLine
    /\ HoldsPresenceToken(lines[1])
    /\ Len(results) = 1
    /\ Record(1).status = "passed"

(* C4: whenever a test-start line is followed by a line that holds "Error:  *)
(* assertion failed", the record committed for that test has status failed  *)
(* and its error text holds that line's text.                               *)
FailedWithText(n, k) ==
    /\ n <= Len(results)
    /\ Record(n).status = "failed"
    /\ Includes(Record(n).error, S_ErrorAssertionFailed)
    /\ Includes(Record(n).error, Trim(lines[k]))

C4_Original ==
    pc = "done" =>
        LET st == Starts
        IN  \A n \in 1..Len(st) :
                LET k == st[n] + 1
                IN  (k <= Len(lines) /\ Includes(lines[k], S_ErrorAssertionFailed)) =>
                        FailedWithText(n, k)

\* C4 as amended: the line is one that reaches the error rule: it comes while
\* the record of that test is open (after its start line, before the next
\* one), and is no retry marker and holds no parenthesized duration.
ReachesErrorRule(k) ==
    /\ Includes(lines[k], S_ErrorAssertionFailed)
    /\ ~Includes(lines[k], S_retry)
    /\ ~HasDuration(lines[k])

C4_Amended ==
    pc = "done" =>
        LET st == Starts
        IN  \A n \in 1..Len(st) : \A k \in LinesAfter(st, n) :
                ReachesErrorRule(k) => FailedWithText(n, k)

C4_Witness ==
    /\ pc = "done"
    /\ LET st == Starts
       IN  \E n \in 1..Len(st) : \E k \in LinesAfter(st, n) :
               ReachesErrorRule(k) /\ FailedWithText(n, k)

(* C5: the retries of each committed record is the number of retry-marker   *)
(* lines (lines holding "retry #" that are no test-start lines) between its *)
(* start line and the next start line or the end of input; a record is      *)
(* committed at the next start line, the last one at the end of input.      *)
RetryLinesOf(st, n) == {k \in LinesAfter(st, n) : Includes(lines[k], S_retry)}

StartsBefore(k) == Cardinality({j \in 1..(k - 1) : IsStartAt(j)})

C5_Retries ==
    /\ results # <<>> =>
           LET st == Starts
           IN  Len(st) >= 1 =>
                   \A n \in 1..Len(results) :
                       Record(n).retries = Cardinality(RetryLinesOf(st, n))
    /\ pc = "loop" =>
           LET seen == StartsBefore(i)
           IN  Len(results) = IF seen = 0 THEN 0 ELSE seen - 1

\* start, "retry #1", start, end of input: retries 1 and 0
C5_Witness ==
    /\ pc = "done"
    /\ lines = <<LineStartDuration, LineRetry, LineStartDuration>>
    /\ Len(results) = 2
    /\ Record(1).retries = 1
    /\ Record(2).retries = 0

(* C6: an input that holds none of the presence tokens (test, describe,     *)
(* expect, passed, failed; case-sensitive), such as "hello world", yields   *)
(* an empty record list and the verdict false.                              *)
EmptyAndFalse == results = <<>> /\ passed = FALSE

C6_Original == (pc = "done" /\ ~HoldsPresenceToken(output)) => EmptyAndFalse

\* C6 as amended: the tokens are looked for in the sanitized text, so it is
\* the sanitized input that must hold none of them.
C6_Amended == (pc = "done" /\ ~HoldsPresenceToken(sanitizeString(output))) => EmptyAndFalse

C6_Witness == pc = "done" /\ output = LineHello /\ EmptyAndFalse

(* C7: the result list is in discovery order: the n-th record is that of    *)
(* the n-th test-start line, and two consecutive test-start lines with no   *)
(* failure marker between or after them yield two records, both passed, in  *)
(* that order.                                                              *)
IsRecordOfStart(st, n) ==
    LET m == testStartMatch(lines[st[n]])
    IN  /\ Record(n).testName = Trim(m.testName)
        /\ Record(n).file = basename(m.file)
        /\ Record(n).browserName = m.browser

\* No line other than a start line holds a marker that changes a status
NoStatusMarker(st) ==
    \A k \in 1..Len(lines) :
        (\E n \in 1..Len(st) : st[n] = k) \/
            /\ ~Includes(lines[k], S_Error)
            /\ ~Includes(lines[k], S_expectCall)
            /\ ~Includes(lines[k], S_TimedOut)
            /\ ~Includes(lines[k], S_skipped)

\* Every record returned is that of the test-start line of the same rank
InOrder(st) == \A n \in 1..Len(results) : n <= Len(st) /\ IsRecordOfStart(st, n)

\* The input holds two test-start lines, one right after the other, and no
\* failure marker
TwoConsecutiveStarts(st) ==
    /\ Len(st) = 2
    /\ st[2] = st[1] + 1
    /\ NoStatusMarker(st)

AllPassedRecords == \A n \in 1..Len(results) : Record(n).status = "passed"

C7_Original ==
    pc = "done" =>
        LET st == Starts
        IN  Len(st) >= 1 =>
                /\ InOrder(st)
                /\ TwoConsecutiveStarts(st) => (Len(results) = 2 /\ AllPassedRecords)

\* C7 as amended: provided the presence heuristic fired (some line holds a
\* presence token), there is one record for each test-start line, in the
\* order of the lines, all passed when no line holds a failure marker; when
\* the heuristic did not fire, no record is returned.
C7_Amended ==
    pc = "done" =>
        LET st == Starts
        IN  Len(st) >= 1 =>
                IF PresenceFired
                THEN /\ Len(results) = Len(st)
                     /\ InOrder(st)
                     /\ NoStatusMarker(st) => AllPassedRecords
                ELSE results = <<>>

C7_Witness ==
    /\ pc = "done"
    /\ lines = <<LineStartDuration, LineStartPlain>>
    /\ Len(results) = 2
    /\ Record(1).testName = S_MyTestWithDuration
    /\ Record(2).testName = S_Login
    /\ Record(1).status = "passed"
    /\ Record(2).status = "passed"

(* C8: the verdict is true exactly when the presence heuristic fired and    *)
(* the sanitized output holds none of failed, error, timeout in any case;   *)
(* so the word error anywhere, a test title included, makes it false.       *)
C8_Verdict ==
    pc = "done" =>
        LET sanitizedOutput == sanitizeString(output)
        IN  passed <=>
                /\ PresenceFired
                /\ ~HoldsIgnoringCase(sanitizedOutput, S_failed)
                /\ ~HoldsIgnoringCase(sanitizedOutput, S_error)
                /\ ~HoldsIgnoringCase(sanitizedOutput, S_timeout)

\* A single passing test whose title holds "Error": verdict false
C8_Witness ==
    /\ pc = "done"
    /\ lines = <<LineStartErrorTitle>>
    /\ Len(results) = 1
    /\ Record(1).status = "passed"
    /\ passed = FALSE

(* C9: when the presence heuristic fired and no test-start line was found,  *)
(* exactly one record is returned: file "", testName "Test Execution",      *)
(* duration "0ms", status passed if the verdict is true and failed if not,  *)
(* error the error buffer if it is not empty and absent if it is.           *)
C9_Generic ==
    (pc = "done" /\ PresenceFired /\ NumStarts = 0) =>
        /\ Len(results) = 1
        /\ Record(1).file = <<>>
        /\ Record(1).testName = S_TestExecution
        /\ Record(1).duration = S_0ms
        /\ Record(1).status = IF passed THEN "passed" ELSE "failed"
        /\ Record(1).error = IF currentError # <<>> THEN currentError ELSE Undefined

C9_Witness ==
    /\ pc = "done"
    /\ PresenceFired
    /\ NumStarts = 0
    /\ Len(results) = 1
    /\ Record(1).testName = S_TestExecution
    /\ Record(1).status = "passed"

(* C10: at most one record is open at any time; opening a record commits   *)
(* the one that was open; a record in the result list is never changed by   *)
(* a later line (the branches only write to the open record).               *)
C10_OneOpen ==
    [][/\ \A r \in 1..Len(heap') :
              (\A k \in 1..Len(results') : results'[k] # r) => r = currentTest'
       /\ Len(results') >= Len(results)
       /\ \A k \in 1..Len(results) :
              results'[k] = results[k] /\ heap'[results[k]] = heap[results[k]]
       /\ (currentTest' # currentTest /\ currentTest # Null) =>
              results' = Append(results, currentTest)]_vars

\* A record is committed, another is open, and a line has changed the open one
C10_Witness ==
    /\ pc = "loop"
    /\ Len(results) >= 1
    /\ currentTest # Null
    /\ ~Committed(currentTest)
    /\ heap[currentTest].status # "passed"
    /\ Record(1).status = "passed"

-----------------------------------------------------------------------------
(* Vocabulary of the properties about single steps of the scan *)

\* The scan is about to process line i
Scanning == pc = "loop" /\ i <= Len(lines)

\* The rule a line falls under by the priority test-start > retry > duration
\* > error fragment > timeout > skip, for a scan with a record open or not
\* and the error buffer buf; every rule but the first needs an open record
Classify(line, open, buf) ==
    IF IsTestStart(line) THEN "start"
    ELSE IF ~open THEN "none"
    ELSE IF Includes(line, S_retry) THEN "retry"
    ELSE IF HasDuration(line) THEN "duration"
    ELSE IF Includes(line, S_Error) \/ Includes(line, S_expectCall) \/ buf # <<>>
         THEN "error"
    ELSE IF Includes(line, S_TimedOut) THEN "timeout"
    ELSE IF Includes(line, S_skipped) THEN "skip"
    ELSE "none"

\* The rule of the line the scan is about to process
Rule == Classify(lines[i], currentTest # Null, currentError)

Fields == {"file", "testName", "status", "duration", "browserName", "retries", "error"}

\* The fields of the open record that the step changes
Changed == {f \in Fields : heap'[currentTest][f] # heap[currentTest][f]}

\* The step leaves the result list, the open-record slot and every record
\* other than the open one as they are
OnlyOpenTouched ==
    /\ results' = results
    /\ currentTest' = currentTest
    /\ Len(heap') = Len(heap)
    /\ \A r \in 1..Len(heap) : r # currentTest => heap'[r] = heap[r]

(* C11: every opened record is committed exactly once, at the next          *)
(* test-start line or else at the end of input: none is lost, none appears  *)
(* twice, and when the presence heuristic fired and there is at least one   *)
(* test-start line the number of records is the number of such lines.       *)
C11_CommittedOnce ==
    /\ \A j, k \in 1..Len(results) : results[j] = results[k] => j = k
    /\ pc = "loop" =>
           /\ Len(heap) = StartsBefore(i)
           /\ \A r \in 1..Len(heap) : Committed(r) <=> r # currentTest
    /\ (pc \in {"return", "done"} /\ PresenceFired) =>
           LET st == Starts
           IN  Len(st) >= 1 =>
                   /\ Len(results) = Len(st)
                   /\ \A r \in 1..Len(st) : Committed(r)

\* Three test-start lines: the first two committed at the next start line,
\* the third at the end of input
C11_Witness ==
    /\ pc = "return"
    /\ NumStarts = 3
    /\ results = <<1, 2, 3>>
    /\ currentTest = 3

(* C12: each line causes at most one transition, that of the first rule it  *)
(* matches in the order test-start, retry, duration, error fragment,        *)
(* timeout, skip: a line with "retry #" and "Error:" only increments the    *)
(* retries; a line with "Error:" and a parenthesized duration only sets the *)
(* duration.                                                                *)
C12_FirstRuleOnly ==
    [][(Scanning /\ Rule # "start") =>
          /\ OnlyOpenTouched
          /\ i' = i + 1
          /\ CASE Rule = "retry" ->
                    /\ Changed = {"retries"}
                    /\ heap'[currentTest].retries = heap[currentTest].retries + 1
                    /\ currentError' = currentError
               [] Rule = "duration" ->
                    /\ Changed \subseteq {"duration"}
                    /\ heap'[currentTest].duration = durationMatch(lines[i])
                    /\ currentError' = currentError
               [] Rule = "error" ->
                    /\ Changed \subseteq {"status", "error"}
                    /\ heap'[currentTest].status = "failed"
                    /\ currentError' # currentError
               [] Rule = "timeout" ->
                    /\ Changed \subseteq {"status", "error"}
                    /\ heap'[currentTest].status = "timedOut"
                    /\ currentError' = currentError
               [] Rule = "skip" ->
                    /\ Changed \subseteq {"status"}
                    /\ heap'[currentTest].status = "skipped"
                    /\ currentError' = currentError
               [] Rule = "none" ->
                    /\ heap' = heap
                    /\ currentError' = currentError]_vars

\* After a start line, a line with "retry #" and "Error:" and a line with
\* "Error:" and a duration: one retry, the duration set, no failure
C12_Witness ==
    /\ pc = "loop"
    /\ i = 4
    /\ lines[2] = LineRetryError
    /\ lines[3] = LineErrorDuration
    /\ currentTest = 1
    /\ heap[1].retries = 1
    /\ heap[1].duration = <<"3", "0", "m", "s">>
    /\ heap[1].status = "passed"
    /\ heap[1].error = Undefined
    /\ currentError = <<>>

(* C13: whenever a record is open and a line holding "Timed out" is         *)
(* processed as a timeout marker, the status of the open record becomes     *)
(* timedOut and its error text becomes the fixed timeout message, whatever  *)
(* error text the record had; nothing else of the record changes.           *)
C13_Timeout ==
    [][(Scanning /\ Rule = "timeout") =>
          /\ currentTest' = currentTest
          /\ heap'[currentTest] =
                 [heap[currentTest] EXCEPT !.status = "timedOut", !.error = TimeoutMessage]]_vars

\* Two timeout markers after a start line: the second one finds the error
\* text of the first and sets it again
C13_Witness ==
    /\ pc = "loop"
    /\ i = 4
    /\ lines[2] = LineTimedOut
    /\ lines[3] = LineTimedOut
    /\ currentTest = 1
    /\ heap[1].status = "timedOut"
    /\ heap[1].error = TimeoutMessage

(* C14: while a record is open its error field agrees with the error        *)
(* buffer: the trimmed buffer when the buffer is not empty, absent when it  *)
(* is empty (the timeout transition setting the buffer to the fixed         *)
(* message).                                                                *)
RecordOpen == pc = "loop" /\ currentTest # Null

C14_Original ==
    RecordOpen =>
        heap[currentTest].error =
            IF currentError # <<>> THEN Trim(currentError) ELSE Undefined

\* C14 as amended: the timeout transition writes the fixed message to the
\* error field of the record and leaves the buffer alone.  So the error field
\* is the trimmed buffer when the buffer is not empty; when the buffer is
\* empty it is absent, or the fixed timeout message if a timeout marker was
\* processed for the record (its status is then timedOut, or skipped if a
\* skip marker came later).
C14_Amended ==
    RecordOpen =>
        LET rec == heap[currentTest]
        IN  IF currentError # <<>>
            THEN rec.error = Trim(currentError) /\ rec.status = "failed"
            ELSE /\ rec.error \in {Undefined, TimeoutMessage}
                 /\ rec.status = "timedOut" => rec.error = TimeoutMessage
                 /\ rec.status = "passed" => rec.error = Undefined
                 /\ rec.error = TimeoutMessage => rec.status \in {"timedOut", "skipped"}

\* A timeout marker, then a skip marker: the buffer is empty and the error
\* field is the timeout message
C14_Witness ==
    /\ RecordOpen
    /\ i = 4
    /\ lines[2] = LineTimedOut
    /\ lines[3] = LineSkipped
    /\ currentError = <<>>
    /\ heap[currentTest].status = "skipped"
    /\ heap[currentTest].error = TimeoutMessage

(* C15: a skip transition (a line holding "skipped" that reaches the skip   *)
(* rule while a record is open) sets the status of the open record to       *)
(* skipped and leaves its retries, duration, testName, file and browserName *)
(* as they are.                                                             *)
C15_Skip ==
    [][(Scanning /\ Rule = "skip") =>
          /\ currentTest' = currentTest
          /\ heap'[currentTest].status = "skipped"
          /\ \A f \in {"retries", "duration", "testName", "file", "browserName"} :
                 heap'[currentTest][f] = heap[currentTest][f]]_vars

\* A record with a duration recorded, then skipped
C15_Witness ==
    /\ pc = "loop"
    /\ i = 4
    /\ lines[2] = LineDuration
    /\ lines[3] = LineSkipped
    /\ currentTest = 1
    /\ heap[1].status = "skipped"
    /\ heap[1].duration = <<"2", ".", "5", "s">>

(* C16: while no record is open (before the first test-start line), retry,  *)
(* duration, error, timeout and skip lines are no-ops: the result list, the *)
(* open-record slot and the error buffer stay as they are, empty.           *)
C16_NoRecordOpen ==
    [][(Scanning /\ currentTest = Null /\ ~IsTestStart(lines[i])) =>
          /\ results = <<>> /\ results' = <<>>
          /\ currentTest' = Null
          /\ currentError = <<>> /\ currentError' = <<>>
          /\ heap' = heap
          /\ pc' = "loop"
          /\ i' = i + 1]_vars

\* An error line, a duration line and a timeout marker with no record open
C16_Witness ==
    /\ pc = "loop"
    /\ i = 4
    /\ lines = <<LineError, LineDuration, LineTimedOut>>
    /\ currentTest = Null
    /\ results = <<>>
    /\ currentError = <<>>
    /\ heap = <<>>

(* C17: every test-start transition opens a record with status passed,      *)
(* retries 0, duration "0ms" and no error text, and empties the error       *)
(* buffer: nothing accumulated for the previous test carries over.          *)
C17_FreshRecord ==
    [][(Scanning /\ Rule = "start") =>
          /\ currentTest' = Len(heap) + 1
          /\ Len(heap') = Len(heap) + 1
          /\ heap'[currentTest'].status = "passed"
          /\ heap'[currentTest'].retries = 0
          /\ heap'[currentTest'].duration = S_0ms
          /\ heap'[currentTest'].error = Undefined
          /\ currentError' = <<>>]_vars

\* A failed test with error text, then the start line of the next test
C17_Witness ==
    /\ pc = "loop"
    /\ i = 4
    /\ lines[2] = LineError
    /\ IsTestStart(lines[3])
    /\ Len(results) = 1
    /\ Record(1).status = "failed"
    /\ currentTest = 2
    /\ heap[2].status = "passed"
    /\ heap[2].error = Undefined
    /\ currentError = <<>>

(* C18: a line holding "Error:" or "expect(" while a record is open sets    *)
(* the status of the record to failed, and from then on every line before   *)
(* the next test-start line or the end of input that no rule of higher      *)
(* priority (retry, duration) takes is appended, trimmed and followed by a  *)
(* newline, to the error buffer of that record.                             *)
HoldsErrorToken(line) == Includes(line, S_Error) \/ Includes(line, S_expectCall)

\* The step appends the line to the buffer and records the failure
ErrorAppended ==
    /\ currentTest' = currentTest
    /\ currentError' = currentError \o Trim(lines[i]) \o <<LF>>
    /\ heap'[currentTest].status = "failed"
    /\ heap'[currentTest].error = Trim(currentError')

\* No rule of higher priority than the error rule takes the line
ReachesErrorStep ==
    /\ ~IsTestStart(lines[i])
    /\ ~Includes(lines[i], S_retry)
    /\ ~HasDuration(lines[i])

C18_Original ==
    [][(Scanning /\ currentTest # Null) =>
          /\ HoldsErrorToken(lines[i]) => heap'[currentTest].status = "failed"
          /\ (currentError # <<>> /\ ReachesErrorStep) => ErrorAppended]_vars

\* C18 as amended: the line that holds "Error:" or "expect(" must itself
\* reach the error rule (be no test-start line and be taken neither by the
\* retry rule nor by the duration rule) to set the status to failed.
C18_Amended ==
    [][(Scanning /\ currentTest # Null /\ ReachesErrorStep) =>
          /\ HoldsErrorToken(lines[i]) => ErrorAppended
          /\ currentError # <<>> => ErrorAppended]_vars

\* A failed expectation, then a line that would otherwise be a skip marker
C18_Witness ==
    /\ pc = "loop"
    /\ i = 4
    /\ lines[2] = LineExpect
    /\ lines[3] = LineSkipped
    /\ currentTest = 1
    /\ heap[1].status = "failed"
    /\ currentError = Trim(LineExpect) \o <<LF>> \o LineSkipped \o <<LF>>

(* C19: in every returned list, a record with status passed has no error    *)
(* text, and a record with status failed has a non-empty error text, the    *)
(* trimmed concatenation of its error-fragment lines.                       *)

\* The error buffer after the lines from..to of a record, every error
\* fragment among them appended trimmed and followed by a newline
RECURSIVE BufferUpTo(_, _)
BufferUpTo(from, to) ==
    IF to < from
    THEN <<>>
    ELSE LET before == BufferUpTo(from, to - 1)
         IN  IF Classify(lines[to], TRUE, before) = "error"
             THEN before \o Trim(lines[to]) \o <<LF>>
             ELSE before

\* The last line of the n-th record, st being the places of the start lines
LastLineOf(st, n) == IF n < Len(st) THEN st[n + 1] - 1 ELSE Len(lines)

PassedHasNoError(n) == Record(n).status = "passed" => Record(n).error = Undefined

FailedHasError(st, n) ==
    Record(n).status = "failed" =>
        /\ Record(n).error # Undefined
        /\ Record(n).error # <<>>
        /\ Len(st) >= n
        /\ Record(n).error = Trim(BufferUpTo(st[n] + 1, LastLineOf(st, n)))

C19_Original ==
    pc = "done" =>
        LET st == Starts
        IN  \A n \in 1..Len(results) : PassedHasNoError(n) /\ FailedHasError(st, n)

\* C19 as amended: the claim holds of the records opened by test-start
\* lines; the record synthesized when there is no test-start line has no
\* error text, also when its status is failed.
C19_Amended ==
    pc = "done" =>
        LET st == Starts
        IN  IF Len(st) = 0
            THEN \A n \in 1..Len(results) : Record(n).error = Undefined
            ELSE \A n \in 1..Len(results) : PassedHasNoError(n) /\ FailedHasError(st, n)

\* A record with two error fragments
C19_Witness ==
    /\ pc = "done"
    /\ Len(lines) = 3
    /\ lines[2] = LineError
    /\ lines[3] = LineExpect
    /\ Len(results) = 1
    /\ Record(1).status = "failed"
    /\ Record(1).error = Trim(LineError) \o <<LF>> \o Trim(LineExpect)

(* C20: the duration of a committed record is the token of the last         *)
(* duration-marker line seen while the record was open, and "0ms" if there  *)
(* was none; a duration line seen while no record is open changes nothing.  *)

\* The lines of the n-th record that the duration rule takes
DurationLinesOf(st, n) ==
    {k \in LinesAfter(st, n) : HasDuration(lines[k]) /\ ~Includes(lines[k], S_retry)}

Max(S) == CHOOSE k \in S : \A j \in S : j <= k

C20_Duration ==
    /\ (pc = "done" /\ PresenceFired) =>
           LET st == Starts
           IN  Len(st) >= 1 =>
                   \A n \in 1..Len(results) :
                       LET ds == DurationLinesOf(st, n)
                       IN  Record(n).duration =
                               IF ds = {} THEN S_0ms ELSE durationMatch(lines[Max(ds)])
    /\ (pc = "loop" /\ currentTest = Null) => (heap = <<>> /\ results = <<>>)

\* Two duration lines for one record: the last one counts
C20_Witness ==
    /\ pc = "done"
    /\ Len(lines) = 3
    /\ lines[2] = LineDuration
    /\ lines[3] = LineErrorDuration
    /\ Len(results) = 1
    /\ Record(1).duration = <<"3", "0", "m", "s">>

-----------------------------------------------------------------------------
(* The two sanitizers, applied to strings over a small alphabet *)

\* The class [\x00-\x1F\x7F-\x9F] of the listing route
InListControlClass(c) ==
    LET cp == CodePoint[c]
    IN  cp \in 0..31 \/ cp \in 127..159

\* The class [\uFDD0-\uFDEF\uFFFE\uFFFF] of the listing route
InNonCharacterClass(c) ==
    LET cp == CodePoint[c]
    IN  cp \in 64976..65007 \/ cp = 65534 \/ cp = 65535

ListControlChars == {c \in Alphabet : InListControlClass(c)}

NonCharacters == {c \in Alphabet : InNonCharacterClass(c)}

IsNotListControl(c) == c \notin ListControlChars

IsNotNonCharacter(c) == c \notin NonCharacters

\* null, beside Undefined: the two values `str == null` holds of
NullValue == <<"null">>

\* sanitizeString of the listing route (src/app/api/list-tests/route.ts)
listTestsSanitizeString(s) ==
    IF s \in {NullValue, Undefined}
    THEN <<>>
    ELSE SelectSeq(SelectSeq(s, IsNotListControl), IsNotNonCharacter)

\* The longest string sanitized, and how often a sanitizer is applied to its
\* own result
MaxSanLen == 3

MaxApplications == 2

\* Ordinary characters, the marker glyphs and the dash, newline, and
\* characters of each class a sanitizer names
SanAlphabet ==
    {"a", "1", ".", "-", "<CHECK>", "<CROSS>", "<BALLOTX>", "<LF>", "<NUL>", "<TAB>", "<CR>",
     "<ESC>", "<NEL>", "<U+FFFE>"}

SanInputs == UNION {[1..n -> SanAlphabet] : n \in 0..MaxSanLen}

SanInit ==
    /\ subject \in SanInputs \cup {NullValue, Undefined}
    /\ sanitizer = "none"
    /\ sanitized = <<>>
    /\ ParseIdle
    /\ HandlerIdle
    /\ CallsIdle
    /\ DashIdle

\* What the next application is given: the subject, then the last result
SanArgument == IF sanitized = <<>> THEN subject ELSE sanitized[Len(sanitized)]

\* sanitizeString of the run-test route; its parameter is a string
SanitizeRunTest ==
    /\ sanitizer \in {"none", "run-test"}
    /\ subject \notin {NullValue, Undefined}
    /\ Len(sanitized) < MaxApplications
    /\ sanitizer' = "run-test"
    /\ sanitized' = Append(sanitized, sanitizeString(SanArgument))
    /\ UNCHANGED <<dashVars, subject, parseVars, handlerVars, callVars>>

\* sanitizeString of the listing route
SanitizeListTests ==
    /\ sanitizer \in {"none", "list-tests"}
    /\ Len(sanitized) < MaxApplications
    /\ sanitizer' = "list-tests"
    /\ sanitized' = Append(sanitized, listTestsSanitizeString(SanArgument))
    /\ UNCHANGED <<dashVars, subject, parseVars, handlerVars, callVars>>

SanNext ==
    \/ SanitizeRunTest
    \/ SanitizeListTests

SanSpec == SanInit /\ [][SanNext]_vars

-----------------------------------------------------------------------------
(* Claims about the sanitizers *)

\* The character classes the specification says a sanitized text is free of:
\* U+0000, the C0 controls other than newline, the C1 controls, and the
\* non-characters
IsSpecForbidden(c) ==
    LET cp == CodePoint[c]
    IN  \/ cp \in 0..9
        \/ cp \in 11..31
        \/ cp \in 128..159
        \/ cp \in 64976..65007
        \/ cp \in {65534, 65535}

\* Letters, digits, punctuation, newline, the marker glyphs and the dash
IsVisible(c) ==
    \/ CodePoint[c] \in 32..126
    \/ c \in {"<LF>", "<CHECK>", "<CROSS>", "<BALLOTX>", "<RSAQUO>"}

\* c occurs in the first result
KeptByFirst(c) == \E k \in 1..Len(sanitized[1]) : sanitized[1][k] = c

\* C22: sanitize is idempotent: applying either sanitizer to its own result
\* returns that result again.
C22_Idempotent == \A k \in 2..Len(sanitized) : sanitized[k] = sanitized[1]

\* C22's case: a sanitizer applied twice to a string it removed characters
\* from and kept characters of
C22_Witness ==
    /\ sanitizer = "run-test"
    /\ Len(sanitized) = 2
    /\ sanitized[1] # subject
    /\ sanitized[1] # <<>>

\* C23: the result of the run-test sanitizer holds no U+0000, no C0 control
\* other than newline, no C1 control and no non-character.
C23_Clean ==
    sanitizer = "run-test" =>
        \A k \in 1..Len(sanitized) :
            \A j \in 1..Len(sanitized[k]) : ~IsSpecForbidden(sanitized[k][j])

\* C24: the run-test sanitizer only deletes: its result is the subject without
\* every occurrence of the characters it removes, the rest in their order,
\* and no visible character (letters, digits, punctuation, newline, the
\* marker glyphs, the dash) is among the removed ones.
C24_OnlyDeletes ==
    (sanitizer = "run-test" /\ Len(sanitized) >= 1) =>
        /\ sanitized[1] = SelectSeq(subject, KeptByFirst)
        /\ SelectSeq(sanitized[1], IsVisible) = SelectSeq(subject, IsVisible)

\* C24's case: a control character removed from between a marker glyph and a
\* dash, which stay
C24_Witness ==
    /\ sanitizer = "run-test"
    /\ Len(sanitized) >= 1
    /\ subject = <<"<CHECK>", "<ESC>", "-">>
    /\ sanitized[1] = <<"<CHECK>", "-">>

-----------------------------------------------------------------------------
(* The list-reporter parser of the run-all handler: parseTestResults of     *)
(* src/unnamed/part_003, the same text as src/UI/pages/api/list-tests.ts    *)
(* lines 61-113.  Its locals have the names of the run-test parser's, and   *)
(* the model keeps them in the same variables; the records it pushes are    *)
(* allocated on the heap as there.                                          *)

S_chromium ==
    <<"[", "c", "h", "r", "o", "m", "i", "u", "m", "]">>

ListLinePassed ==
    <<" ", " ", "<CHECK>", " ", " ", "1", " ", "[", "c", "h", "r", "o", "m", "i", "u", "m",
      "]", " ", "<RSAQUO>", " ", "t", "e", "s", "t", "s", "/", "a", ".", "s", "p", "e", "c",
      ".", "t", "s", ":", "3", ":", "5", " ", "<RSAQUO>", " ", "l", "o", "g", "s", " ", "i",
      "n", " ", "(", "1", ".", "2", "s", ")">>

ListLineFailed ==
    <<" ", " ", "<CROSS>", " ", " ", "2", " ", "[", "c", "h", "r", "o", "m", "i", "u", "m",
      "]", " ", "<RSAQUO>", " ", "t", "e", "s", "t", "s", "/", "a", ".", "s", "p", "e", "c",
      ".", "t", "s", ":", "9", ":", "5", " ", "<RSAQUO>", " ", "a", "d", "d", "s", " ", "i",
      "t", "e", "m", " ", "(", "3", "0", "m", "s", ")">>

ListLineSkipped ==
    <<" ", " ", "-", " ", " ", "3", " ", "[", "c", "h", "r", "o", "m", "i", "u", "m", "]", " ",
      "<RSAQUO>", " ", "t", "e", "s", "t", "s", "/", "b", ".", "s", "p", "e", "c", ".", "t",
      "s", ":", "4", ":", "5", " ", "<RSAQUO>", " ", "i", "s", " ", "s", "k", "i", "p", "p",
      "e", "d">>

ListLineSkippedSpace ==
    <<" ", " ", "-", " ", " ", "3", " ", "[", "c", "h", "r", "o", "m", "i", "u", "m", "]", " ",
      "<RSAQUO>", " ", "t", "e", "s", "t", "s", "/", "b", ".", "s", "p", "e", "c", ".", "t",
      "s", ":", "4", ":", "5", " ", "<RSAQUO>", " ", "i", "s", " ", "s", "k", "i", "p", "p",
      "e", "d", " ">>

ListLineFirefox ==
    <<" ", " ", "<CHECK>", " ", " ", "4", " ", "[", "f", "i", "r", "e", "f", "o", "x", "]",
      " ", "<RSAQUO>", " ", "t", "e", "s", "t", "s", "/", "a", ".", "s", "p", "e", "c", ".",
      "t", "s", ":", "3", ":", "5", " ", "<RSAQUO>", " ", "l", "o", "g", "s", " ", "i", "n",
      " ", "(", "1", "s", ")">>

ListLineBallot ==
    <<" ", " ", "<BALLOTX>", " ", " ", "5", " ", "[", "c", "h", "r", "o", "m", "i", "u", "m",
      "]", " ", "<RSAQUO>", " ", "t", "e", "s", "t", "s", "/", "c", ".", "s", "p", "e", "c",
      ".", "t", "s", ":", "1", ":", "1", " ", "<RSAQUO>", " ", "b", "r", "e", "a", "k", "s",
      " ", "(", "2", "s", ")">>

ListLineSummary ==
    <<" ", " ", "1", " ", "f", "a", "i", "l", "e", "d">>

ListLineRunning ==
    <<"R", "u", "n", "n", "i", "n", "g", " ", "3", " ", "t", "e", "s", "t", "s", " ", "u", "s",
      "i", "n", "g", " ", "1", " ", "w", "o", "r", "k", "e", "r">>

\* The character class [✓✘-] of testLineRegex
StatusGlyphs == {"<CHECK>", "<CROSS>", "-"}

\* The end of the longest run of white space that starts at p (p - 1 when empty)
SpaceRunEnd(s, p) ==
    CHOOSE q \in (p - 1)..Len(s) :
        /\ \A k \in p..q : IsWhiteSpace(s[k])
        /\ (q = Len(s) \/ ~IsWhiteSpace(s[q + 1]))

\* The position after \s+, after \d+ and after a literal matched at p; 0 when
\* there is no match at p, or p is itself 0.  Each run is followed in the
\* expression by something the run's characters do not match, so only the
\* longest run can lead to a match.
AfterSpaces(s, p) ==
    IF p >= 1 /\ p <= Len(s) /\ IsWhiteSpace(s[p]) THEN SpaceRunEnd(s, p) + 1 ELSE 0

AfterDigits(s, p) ==
    IF p >= 1 /\ p <= Len(s) /\ IsDigit(s[p]) THEN DigitRunEnd(s, p) + 1 ELSE 0

AfterLiteral(s, p, t) ==
    IF p >= 1 /\ StartsWithAt(s, p, t) THEN p + Len(t) ELSE 0

\* /\s+([✓✘-])\s+\d+\s+\[chromium\]\s+›\s+(.*?):(\d+):(\d+)\s+›\s+(.*?)\s+(?:\((.*?)\))?$/
\* With the glyph at g: the position the file path starts at when the white
\* space before it is taken whole, 0 when the line does not match up to there
PathStart(s, g) ==
    LET ordinal == AfterSpaces(s, g + 1)
        engine == AfterSpaces(s, AfterDigits(s, ordinal))
        arrow == AfterSpaces(s, AfterLiteral(s, engine, S_chromium))
    IN  AfterSpaces(s, AfterLiteral(s, arrow, <<"<RSAQUO>">>))

\* With the file path ending before p: the position after :(\d+):(\d+)\s+›,
\* where the white space before the title starts, or 0
TitleSpaces(s, p) ==
    LET line == AfterLiteral(s, p, <<":">>)
        col == AfterLiteral(s, AfterDigits(s, line), <<":">>)
        arrow == AfterSpaces(s, AfterDigits(s, col))
    IN  AfterLiteral(s, arrow, <<"<RSAQUO>">>)

\* (?:\((.*?)\))?$ at q: the group is there when a "(" at q is closed by a ")"
\* that ends the line, the lazy group stretching that far
HasParens(s, q) ==
    /\ q < Len(s)
    /\ s[q] = "("
    /\ s[Len(s)] = ")"
    /\ \A k \in (q + 1)..(Len(s) - 1) : ~IsLineTerminator(s[k])

\* \s+(?:\((.*?)\))?$ at p: white space, then the end of the line or the group
TailMatches(s, p) ==
    /\ p <= Len(s)
    /\ IsWhiteSpace(s[p])
    /\ LET q == SpaceRunEnd(s, p) + 1
       IN  q = Len(s) + 1 \/ HasParens(s, q)

\* The ends the lazy title group can have when it starts at ts
TitleEnds(s, ts) ==
    {e \in (ts - 1)..Len(s) :
        /\ \A k \in ts..e : ~IsLineTerminator(s[k])
        /\ TailMatches(s, e + 1)}

\* The starts of the title group for which the line matches: the white space
\* before it, which starts at w, is greedy, and gives back what it must
TitleStarts(s, w) ==
    IF AfterSpaces(s, w) = 0
    THEN {}
    ELSE {ts \in (w + 1)..AfterSpaces(s, w) : TitleEnds(s, ts) # {}}

\* The ends the lazy file-path group can have when it starts at p0
PathEnds(s, p0) ==
    {pe \in (p0 - 1)..Len(s) :
        /\ \A k \in p0..pe : ~IsLineTerminator(s[k])
        /\ TitleStarts(s, TitleSpaces(s, pe + 1)) # {}}

\* The positions of a glyph the expression matches from
GlyphStarts(s) ==
    {g \in 2..Len(s) :
        /\ s[g] \in StatusGlyphs
        /\ IsWhiteSpace(s[g - 1])
        /\ PathStart(s, g) # 0
        /\ PathEnds(s, PathStart(s, g)) # {}}

\* line.match(testLineRegex) is not null
IsTestLine(s) == GlyphStarts(s) # {}

\* The groups of the match: the leftmost glyph, the shortest file path, the
\* longest white space before the title, the shortest title
testLineMatch(s) ==
    LET g == Min(GlyphStarts(s))
        p0 == PathStart(s, g)
        pe == Min(PathEnds(s, p0))
        starts == TitleStarts(s, TitleSpaces(s, pe + 1))
        ts == CHOOSE k \in starts : \A j \in starts : j <= k
        e == Min(TitleEnds(s, ts))
        q == SpaceRunEnd(s, e + 1) + 1
    IN  [status |-> s[g],
         filePath |-> SubSeq(s, p0, pe),
         testName |-> SubSeq(s, ts, e),
         duration |-> IF q = Len(s) + 1 THEN Undefined ELSE SubSeq(s, q + 1, Len(s) - 1)]

\* The switch on the glyph: the status of the record
testStatus(glyph) ==
    CASE glyph = "<CHECK>" -> "passed"
      [] glyph = "<CROSS>" -> "failed"
      [] glyph = "-" -> "pending"
      [] OTHER -> "failed"

\* GlyphFails with the dash counted as a failure
GlyphFails_Dash(glyph) == glyph # "<CHECK>"

\* The switch on the glyph: the cases that set passed = false
GlyphFails(glyph) == glyph \notin {"<CHECK>", "-"}

\* The record pushed for a matched line
ListResult(m) ==
    [file |-> basename(Trim(m.filePath)),
     testName |-> Trim(m.testName),
     status |-> testStatus(m.status),
     duration |-> IF m.duration \in {Undefined, <<>>} THEN ZeroDuration ELSE m.duration,
     error |-> Undefined]

\* NeedsFallback without the search for 'failed'
NeedsFallback_Always(res, out) == Len(res) = 0

\* results.length === 0 && output.includes('failed')
NeedsFallback(res, out) == Len(res) = 0 /\ Includes(out, S_failed)

\* The record pushed when no line matched and the output holds 'failed'
FallbackResult(out) ==
    [file |-> <<>>,
     testName |-> GenericTestName,
     status |-> "failed",
     duration |-> ZeroDuration,
     error |-> out]

ListPool ==
    {ListLinePassed, ListLineFailed, ListLineSkipped, ListLineSkippedSpace, ListLineFirefox,
     ListLineBallot, ListLineSummary, ListLineRunning, LineStartPlain}

ListOutputs == {Join(ls) : ls \in UNION {[1..n -> ListPool] : n \in 1..MaxLines}}

ListInit ==
    /\ output \in ListOutputs
    /\ pc = "start"
    /\ lines = <<>>
    /\ hasTestOutput = FALSE
    /\ passed = FALSE
    /\ currentError = <<>>
    /\ currentTest = Null
    /\ results = <<>>
    /\ heap = <<>>
    /\ i = 1
    /\ SanIdle
    /\ HandlerIdle
    /\ CallsIdle
    /\ DashIdle

\* Lines 16-18: split, the empty list, passed = true
ListBegin ==
    /\ pc = "start"
    /\ lines' = Split(output)
    /\ passed' = TRUE
    /\ pc' = "loop"
    /\ UNCHANGED <<dashVars, sanVars, handlerVars, callVars, output, hasTestOutput, currentError,
                   currentTest, results, heap, i>>

\* Lines 24-52: a line the expression matches
ListMatched ==
    /\ InLoop
    /\ IsTestLine(lines[i])
    /\ LET m == testLineMatch(lines[i])
       IN  /\ passed' = IF GlyphFails(m.status) THEN FALSE ELSE passed
           /\ heap' = Append(heap, ListResult(m))
           /\ results' = Append(results, Len(heap) + 1)
    /\ i' = i + 1
    /\ UNCHANGED <<dashVars, sanVars, handlerVars, callVars, output, pc, lines, hasTestOutput,
                   currentError, currentTest>>

\* Lines 24-25: a line the expression does not match
ListUnmatched ==
    /\ InLoop
    /\ ~IsTestLine(lines[i])
    /\ i' = i + 1
    /\ UNCHANGED <<dashVars, sanVars, handlerVars, callVars, output, pc, lines, hasTestOutput, passed,
                   currentError, currentTest, results, heap>>

\* Lines 54-66: the loop is over; the fallback record, and the return
ListReturn ==
    /\ pc = "loop"
    /\ i > Len(lines)
    /\ IF NeedsFallback(results, output)
       THEN /\ heap' = Append(heap, FallbackResult(output))
            /\ results' = Append(results, Len(heap) + 1)
            /\ passed' = FALSE
       ELSE UNCHANGED <<heap, results, passed>>
    /\ pc' = "done"
    /\ UNCHANGED <<dashVars, sanVars, handlerVars, callVars, output, lines, hasTestOutput,
                   currentError, currentTest, i>>

ListNext ==
    \/ ListBegin
    \/ ListMatched
    \/ ListUnmatched
    \/ ListReturn

ListSpec == ListInit /\ [][ListNext]_vars

-----------------------------------------------------------------------------
(* Claims about the list-reporter parser *)

\* The lines of the output the expression matches, in order
MatchedLines == SelectSeq(lines, IsTestLine)

\* The status the specification gives each glyph
SpecStatusOf(glyph) ==
    CASE glyph = "<CHECK>" -> "passed"
      [] glyph = "<CROSS>" -> "failed"
      [] glyph = "-" -> "skipped"

\* The input lines written in the list-style summary grammar of the
\* specification: a status glyph (the third character of each), an ordinal,
\* [engine] › path:line:col › title
IsListStyleLine(s) ==
    s \in {ListLinePassed, ListLineFailed, ListLineSkipped, ListLineSkippedSpace,
           ListLineFirefox}

\* C21: every line of the list-style grammar is accepted as a test start, and
\* its record's final status is fixed by its glyph alone: passed for the
\* check mark, failed for the cross, skipped for the dash.
C21_GlyphStatus ==
    pc = "done" =>
        LET gs == SelectSeq(lines, IsListStyleLine)
        IN  gs # <<>> =>
                /\ Len(results) = Len(gs)
                /\ \A n \in 1..Len(gs) : heap[results[n]].status = SpecStatusOf(gs[n][3])

\* C30: in the list-style parser the verdict is false exactly when a matched
\* line carries the cross, or no line matched and the output holds "failed";
\* in the latter case the result is one failed 'Test Execution' record
\* carrying the whole output; with no matched line and no "failed" the list
\* is empty and the verdict true.
C30_Verdict ==
    pc = "done" =>
        LET ms == MatchedLines
            crossed == \E n \in 1..Len(ms) : testLineMatch(ms[n]).status = "<CROSS>"
            residual == ms = <<>> /\ Includes(output, S_failed)
        IN  /\ passed = FALSE <=> (crossed \/ residual)
            /\ residual =>
                   /\ Len(results) = 1
                   /\ heap[results[1]] =
                          [file |-> <<>>, testName |-> S_TestExecution, status |-> "failed",
                           duration |-> S_0ms, error |-> output]
            /\ (ms = <<>> /\ ~Includes(output, S_failed)) =>
                   results = <<>> /\ passed = TRUE

\* C30's case: no line matched, the output holds "failed", and the one record
\* was synthesized
C30_Witness ==
    /\ pc = "done"
    /\ MatchedLines = <<>>
    /\ Includes(output, S_failed)
    /\ Len(lines) = 2
    /\ Len(results) = 1
    /\ heap[results[1]].error = output
    /\ passed = FALSE

-----------------------------------------------------------------------------
(* parseTestResults of the run-test route as a function of its argument: the *)
(* same steps as the actions above, on a frame, the record of the call's     *)
(* local bindings.                                                           *)

\* Lines 23-45: the bindings when the loop is reached
EnterFrame(out) ==
    LET sanitizedOutput == sanitizeString(out)
        ls == Split(sanitizedOutput)
        has == HasTestOutput(ls)
    IN  [lines |-> ls,
         hasTestOutput |-> has,
         passed |-> IF has THEN AllPassed(sanitizedOutput) ELSE FALSE,
         currentError |-> <<>>,
         currentTest |-> Null,
         results |-> <<>>,
         heap |-> <<>>,
         i |-> 1]

\* Lines 47-102: one turn of the loop, on line f.i
LoopBody(f) ==
    LET line == f.lines[f.i]
        ct == f.currentTest
        open == IF ct = Null THEN [status |-> "null"] ELSE f.heap[ct]
    IN  IF IsTestStart(line)
        THEN [f EXCEPT !.results = CommitOpen(f.results, ct),
                       !.heap = Append(f.heap, NewTest(testStartMatch(line))),
                       !.currentTest = Len(f.heap) + 1,
                       !.currentError = <<>>,
                       !.i = @ + 1]
        ELSE IF RetryCond(line, ct)
        THEN [f EXCEPT !.heap[ct] = IncrementRetries(open), !.i = @ + 1]
        ELSE IF DurationCond(line, ct)
        THEN [f EXCEPT !.heap[ct] = SetDuration(open, line), !.i = @ + 1]
        ELSE IF ErrorCond(line, ct, f.currentError)
        THEN LET err == AppendError(f.currentError, line)
             IN  [f EXCEPT !.currentError = err,
                           !.heap[ct] = RecordError(open, err),
                           !.i = @ + 1]
        ELSE IF TimeoutCond(line, ct)
        THEN [f EXCEPT !.heap[ct] = RecordTimeout(open), !.i = @ + 1]
        ELSE IF SkipCond(line, ct)
        THEN [f EXCEPT !.heap[ct] = RecordSkip(open), !.i = @ + 1]
        ELSE [f EXCEPT !.i = @ + 1]

\* Lines 104-107: the open record is pushed
LeaveLoop(f) == [f EXCEPT !.results = CommitOpen(f.results, f.currentTest)]

\* Lines 109-119: the generic record
Finish(f) ==
    IF NeedsGeneric(f.results, f.hasTestOutput)
    THEN [f EXCEPT !.heap = Append(f.heap, GenericResult(f.passed, f.currentError)),
                   !.results = Append(f.results, Len(f.heap) + 1)]
    ELSE f

\* Line 121: { passed, results }
ReturnedOf(f) ==
    [passed |-> f.passed, results |-> [k \in 1..Len(f.results) |-> f.heap[f.results[k]]]]

RECURSIVE RunLoop(_)
RunLoop(f) == IF f.i > Len(f.lines) THEN f ELSE RunLoop(LoopBody(f))

parseTestResults(out) ==
    LET f == EnterFrame(out)
    IN  ReturnedOf(Finish(IF f.hasTestOutput THEN LeaveLoop(RunLoop(f)) ELSE f))

\* The function and the actions agree on what a call returns
ReturnedAsComputed == pc = "done" => Returned = parseTestResults(output)

-----------------------------------------------------------------------------
(* The run-test handler: POST of src/app/api/run-test/route.ts.  The handler *)
(* awaits the request body, the file and the test-runner process; the model *)
(* has a step for each, and pc is the handler's position.                   *)

S_NoTestsFound ==
    <<"N", "o", " ", "t", "e", "s", "t", "s", " ", "f", "o", "u", "n", "d">>

S_TestNotFound ==
    <<"T", "e", "s", "t", " ", "N", "o", "t", " ", "F", "o", "u", "n", "d">>

S_InvalidRequest ==
    <<"I", "n", "v", "a", "l", "i", "d", " ", "R", "e", "q", "u", "e", "s", "t">>

S_NoMatchingTests ==
    <<"N", "o", " ", "m", "a", "t", "c", "h", "i", "n", "g", " ", "t", "e", "s", "t", "s", " ",
      "f", "o", "u", "n", "d">>

S_NoTestFoundAtIndex ==
    <<"N", "o", " ", "t", "e", "s", "t", " ", "f", "o", "u", "n", "d", " ", "a", "t", " ", "i",
      "n", "d", "e", "x", " ">>

S_JsonError ==
    <<"U", "n", "e", "x", "p", "e", "c", "t", "e", "d", " ", "e", "n", "d", " ", "o", "f", " ",
      "J", "S", "O", "N", " ", "i", "n", "p", "u", "t">>

S_PathTypeError ==
    <<"T", "h", "e", " ", "\"", "p", "a", "t", "h", "\"", " ", "a", "r", "g", "u", "m", "e",
      "n", "t", " ", "m", "u", "s", "t", " ", "b", "e", " ", "o", "f", " ", "t", "y", "p", "e",
      " ", "s", "t", "r", "i", "n", "g">>

S_ENOENT ==
    <<"E", "N", "O", "E", "N", "T", ":", " ", "n", "o", " ", "s", "u", "c", "h", " ", "f", "i",
      "l", "e", " ", "o", "r", " ", "d", "i", "r", "e", "c", "t", "o", "r", "y", ",", " ", "o",
      "p", "e", "n", " ", "'">>

S_CommandHead ==
    <<"n", "p", "x", " ", "p", "l", "a", "y", "w", "r", "i", "g", "h", "t", " ", "t", "e", "s",
      "t", " ", "\"">>

S_CommandGrep ==
    <<"\"", " ", "-", "-", "g", "r", "e", "p", "=", "\"">>

S_CommandFailed ==
    <<"C", "o", "m", "m", "a", "n", "d", " ", "f", "a", "i", "l", "e", "d", ":", " ">>

FileA ==
    <<"t", "e", "s", "t", "s", "/", "a", ".", "s", "p", "e", "c", ".", "t", "s">>

FileEsc ==
    <<"t", "e", "s", "t", "s", "/", "b", "<ESC>", ".", "s", "p", "e", "c", ".", "t", "s">>

ContentTwo ==
    <<"t", "e", "s", "t", "(", "'", "a", "'", ",", " ", "f", ")", "<LF>", "t", "e", "s", "t",
      "(", "\"", "b", "\"", ",", " ", "g", ")">>

\* two declarations, the first written with a space before the parenthesis
ContentSpaced ==
    <<"t", "e", "s", "t", " ", "(", "'", "a", "'", ",", " ", "f", ")", "<LF>", "t", "e", "s",
      "t", "(", "'", "b", "'", ",", " ", "g", ")">>

ContentNone ==
    <<"d", "e", "s", "c", "r", "i", "b", "e", "(", "'", "x", "'", ")">>

ContentHidden ==
    <<"t", "e", "<NUL>", "s", "t", " ", "(", " ", "'", "c", "<ESC>", "d", "'", " ", ")">>

OutNoTests ==
    <<"E", "r", "r", "o", "r", ":", " ", "N", "o", " ", "t", "e", "s", "t", "s", " ", "f", "o",
      "u", "n", "d">>

ErrColored ==
    <<"<ESC>", "[", "3", "1", "m", "b", "o", "o", "m">>

\* a || b on strings
OrElse(a, b) == IF a # <<>> THEN a ELSE b

\* The largest index a request asks for
MaxIndex == 2

Digits == <<"0", "1", "2", "3", "4", "5", "6", "7", "8", "9">>

\* `${index}` for the indexes of the model
IndexToString(n) == IF n < 0 THEN <<"-", Digits[1 - n]>> ELSE <<Digits[n + 1]>>

\* The position after \s* at p
SkipSpaces(s, p) == IF p <= Len(s) /\ IsWhiteSpace(s[p]) THEN SpaceRunEnd(s, p) + 1 ELSE p

IsQuote(c) == c \in {"\"", "'"}

\* The end of the longest run of characters other than quotes that starts at
\* p (p - 1 when empty): [^"']+
NameRunEnd(s, p) ==
    CHOOSE q \in (p - 1)..Len(s) :
        /\ \A k \in p..q : ~IsQuote(s[k])
        /\ (q = Len(s) \/ IsQuote(s[q + 1]))

\* /test\s*\(\s*["']([^"']+)["']/ at p: the position of the closing quote, or
\* 0 when the expression does not match at p
DeclarationEnd(s, p) ==
    IF ~StartsWithAt(s, p, S_test)
    THEN 0
    ELSE LET paren == SkipSpaces(s, p + 4)
             quote == SkipSpaces(s, paren + 1)
             last == NameRunEnd(s, quote + 1)
         IN  IF /\ paren <= Len(s)
                /\ s[paren] = "("
                /\ quote <= Len(s)
                /\ IsQuote(s[quote])
                /\ last >= quote + 1
                /\ last < Len(s)
             THEN last + 1
             ELSE 0

\* The name the match at p captures
DeclarationName(s, p) ==
    LET quote == SkipSpaces(s, SkipSpaces(s, p + 4) + 1)
    IN  SubSeq(s, quote + 1, DeclarationEnd(s, p) - 1)

\* Array.from(s.matchAll(...)), searched from p on: the captured names
RECURSIVE DeclarationsFrom(_, _)
DeclarationsFrom(s, p) ==
    IF p > Len(s)
    THEN <<>>
    ELSE IF DeclarationEnd(s, p) = 0
    THEN DeclarationsFrom(s, p + 1)
    ELSE <<DeclarationName(s, p)>> \o DeclarationsFrom(s, DeclarationEnd(s, p) + 1)

\* Line 139: the test declarations of the sanitized content
testDeclarations(content) == DeclarationsFrom(sanitizeString(content), 1)

\* HasTest that takes the length of the list for an index
HasTest_OffByOne(tests, index) == index >= 0 /\ index <= Len(tests)

\* Line 142: tests[index] is there
HasTest(tests, index) == index >= 0 /\ index < Len(tests)

\* Line 158: tests[index][1]
TestNameAt(tests, index) == IF index + 1 \in DOMAIN tests THEN tests[index + 1] ELSE Undefined

\* Line 178: the command line of the runner
Command(file, testName) ==
    S_CommandHead \o basename(file) \o S_CommandGrep \o testName \o <<"\"">>

\* What a read of the file gives: a content, or nothing
Missing == <<"ENOENT">>

Contents == {ContentTwo, ContentSpaced, ContentNone, ContentHidden}

\* The message of the error the read throws
ReadErrorMessage(file) ==
    IF file = Undefined THEN S_PathTypeError ELSE S_ENOENT \o file \o <<"'">>

\* How the runner process can end: without error or with one, with what it
\* wrote to its two streams
RunnerStdouts ==
    {<<>>, OutNoTests, Join(<<LineStartPlain, LinePassed>>), Join(<<LineStartPlain, LineError>>),
     LineHello}

RunnerStderrs == {<<>>, ErrColored}

\* The message of the error a failed invocation rejects with
CommandFailedMessage(command, stderr) == S_CommandFailed \o command \o <<LF>> \o stderr

Requests ==
    {[json |-> FALSE, file |-> Undefined, index |-> 0]}
        \cup {[json |-> TRUE, file |-> f, index |-> n] :
                 f \in {FileA, FileEsc, Undefined}, n \in (-1)..MaxIndex}

\* A response: the HTTP status and the body
Respond(http, status, message, error, out, testResults) ==
    [http |-> http, status |-> status, message |-> message, error |-> error, output |-> out,
     testResults |-> testResults]

\* The one record of the responses that carry no parsed result
SingleResult(file, testName, error) ==
    [file |-> file, testName |-> testName, status |-> "failed", duration |-> ZeroDuration,
     error |-> error]

\* SanitizeResult that passes the record on as it is
SanitizeResult_Skipped(result) == result

\* Lines 209-215: the fields of a parsed record, sanitized
SanitizeResult(result) ==
    [result EXCEPT !.file = sanitizeString(@),
                   !.testName = sanitizeString(@),
                   !.error = IF @ \notin {Undefined, <<>>} THEN sanitizeString(@) ELSE Undefined,
                   !.duration = sanitizeString(@)]

\* FailedRunStatus that takes the parser's verdict
FailedRunStatus_FromParser(parsed) == IF parsed.passed THEN "passed" ELSE "failed"

\* Line 239: the status answered when the invocation failed
FailedRunStatus(parsed) == "failed"

RunInit ==
    /\ request \in Requests
    /\ pc = "start"
    /\ fileContent = Null
    /\ runner = Null
    /\ invoked = 0
    /\ response = Null
    /\ files = Null
    /\ output = <<>>
    /\ lines = <<>>
    /\ hasTestOutput = FALSE
    /\ passed = FALSE
    /\ currentError = <<>>
    /\ currentTest = Null
    /\ results = <<>>
    /\ heap = <<>>
    /\ i = 1
    /\ SanIdle
    /\ CallsIdle
    /\ DashIdle

\* Lines 271-288: request.json() throws
InvalidRequest ==
    /\ pc = "start"
    /\ ~request.json
    /\ response' = Respond(400, "failed", "Invalid request", S_JsonError, <<>>,
                           <<SingleResult(<<>>, S_InvalidRequest, S_JsonError)>>)
    /\ pc' = "responded"
    /\ UNCHANGED <<dashVars, sanVars, callVars, request, fileContent, runner, invoked, files, output,
                   lines, hasTestOutput, passed, currentError, currentTest, results, heap, i>>

\* Lines 126-131: the body is read, then the file: it is there with some
\* content, or the read throws (as it does when the body names no file)
ReadFile ==
    /\ pc = "start"
    /\ request.json
    /\ \E c \in Contents \cup {Missing} :
           /\ request.file = Undefined => c = Missing
           /\ fileContent' = c
    /\ pc' = "read"
    /\ UNCHANGED <<dashVars, sanVars, callVars, request, runner, invoked, response, files, output,
                   lines, hasTestOutput, passed, currentError, currentTest, results, heap, i>>

\* Lines 253-269: the read threw
ReadFailed ==
    /\ pc = "read"
    /\ fileContent = Missing
    /\ LET errorMessage == ReadErrorMessage(request.file)
       IN  response' = Respond(200, "failed", "Failed to execute test", errorMessage, <<>>,
                               <<SingleResult(request.file, GenericTestName, errorMessage)>>)
    /\ pc' = "responded"
    /\ UNCHANGED <<dashVars, sanVars, callVars, request, fileContent, runner, invoked, files, output,
                   lines, hasTestOutput, passed, currentError, currentTest, results, heap, i>>

\* Lines 135-155: no declaration at the index
TestNotFound ==
    /\ pc = "read"
    /\ fileContent # Missing
    /\ ~HasTest(testDeclarations(fileContent), request.index)
    /\ response' = Respond(200, "failed", "Test not found at specified index",
                           S_NoTestFoundAtIndex \o IndexToString(request.index), <<>>,
                           <<SingleResult(request.file, S_TestNotFound, Undefined)>>)
    /\ pc' = "responded"
    /\ UNCHANGED <<dashVars, sanVars, callVars, request, fileContent, runner, invoked, files, output,
                   lines, hasTestOutput, passed, currentError, currentTest, results, heap, i>>

\* Lines 157-184: the runner is started on the file and the test's name
Launch ==
    /\ pc = "read"
    /\ fileContent # Missing
    /\ HasTest(testDeclarations(fileContent), request.index)
    /\ LET testName == TestNameAt(testDeclarations(fileContent), request.index)
       IN  runner' = [command |-> Command(request.file, testName), exited |-> FALSE,
                      error |-> FALSE, stdout |-> <<>>, stderr |-> <<>>]
    /\ invoked' = invoked + 1
    /\ pc' = "running"
    /\ UNCHANGED <<dashVars, sanVars, callVars, request, fileContent, response, files, output, lines,
                   hasTestOutput, passed, currentError, currentTest, results, heap, i>>

\* The name of the test the runner was started for
LaunchedTestName == TestNameAt(testDeclarations(fileContent), request.index)

\* Lines 184-203: the runner ended without error and wrote "No tests found"
NoTestsFound ==
    /\ pc = "running"
    /\ \E stdout \in RunnerStdouts, stderr \in RunnerStderrs :
           LET out == OrElse(stdout, stderr)
           IN  /\ Includes(out, S_NoTestsFound)
               /\ runner' = [runner EXCEPT !.exited = TRUE, !.stdout = stdout,
                                           !.stderr = stderr]
               /\ response' = Respond(200, "failed", "Test not found", out, out,
                                      <<SingleResult(request.file, LaunchedTestName,
                                                     S_NoMatchingTests)>>)
    /\ pc' = "responded"
    /\ UNCHANGED <<dashVars, sanVars, callVars, request, fileContent, invoked, files, output, lines,
                   hasTestOutput, passed, currentError, currentTest, results, heap, i>>

\* Lines 184-223: the runner ended without error; its output is parsed
Succeeded ==
    /\ pc = "running"
    /\ \E stdout \in RunnerStdouts, stderr \in RunnerStderrs :
           LET out == OrElse(stdout, stderr)
               parsed == parseTestResults(out)
           IN  /\ ~Includes(out, S_NoTestsFound)
               /\ runner' = [runner EXCEPT !.exited = TRUE, !.stdout = stdout,
                                           !.stderr = stderr]
               /\ response' =
                      Respond(200,
                              IF parsed.passed THEN "passed" ELSE "failed",
                              IF parsed.passed THEN "Test executed successfully"
                                               ELSE "Test failed",
                              IF stderr # <<>> THEN sanitizeString(stderr) ELSE <<>>,
                              sanitizeString(out),
                              [k \in 1..Len(parsed.results) |->
                                  SanitizeResult(parsed.results[k])])
    /\ pc' = "responded"
    /\ UNCHANGED <<dashVars, sanVars, callVars, request, fileContent, invoked, files, output, lines,
                   hasTestOutput, passed, currentError, currentTest, results, heap, i>>

\* Lines 225-251: the invocation failed; what it wrote is parsed all the same
ExecFailed ==
    /\ pc = "running"
    /\ \E stdout \in RunnerStdouts, stderr \in RunnerStderrs :
           LET out == OrElse(stdout, stderr)
               parsed == parseTestResults(out)
               error == OrElse(stderr, CommandFailedMessage(runner.command, stderr))
           IN  /\ runner' = [runner EXCEPT !.exited = TRUE, !.error = TRUE,
                                           !.stdout = stdout, !.stderr = stderr]
               /\ response' =
                      Respond(200, FailedRunStatus(parsed), "Test failed", error, out,
                              IF Len(parsed.results) > 0
                              THEN parsed.results
                              ELSE <<SingleResult(request.file, LaunchedTestName, error)>>)
    /\ pc' = "responded"
    /\ UNCHANGED <<dashVars, sanVars, callVars, request, fileContent, invoked, files, output, lines,
                   hasTestOutput, passed, currentError, currentTest, results, heap, i>>

RunNext ==
    \/ InvalidRequest
    \/ ReadFile
    \/ ReadFailed
    \/ TestNotFound
    \/ Launch
    \/ NoTestsFound
    \/ Succeeded
    \/ ExecFailed

RunSpec == RunInit /\ [][RunNext]_vars

-----------------------------------------------------------------------------
(* Claims about the run-test handler *)

\* s holds none of the characters sanitizeString removes (an absent field
\* holds none)
IsSanitized(s) == s = Undefined \/ sanitizeString(s) = s

\* What the runner wrote, as the handler reads it: stdout || stderr
RunnerOutput == OrElse(runner.stdout, runner.stderr)

\* The request was parsed, the file was read, and the sanitized content has
\* no test declaration at the requested index
NoDeclaration ==
    /\ request.json
    /\ pc # "start"
    /\ fileContent # Missing
    /\ request.index + 1 \notin 1..Len(testDeclarations(fileContent))

\* C25: in every response of the run-test handler, on every path, the file,
\* testName and error fields of each entry of testResults hold none of the
\* characters sanitize removes.
C25_FieldsSanitized ==
    pc = "responded" =>
        \A k \in 1..Len(response.testResults) :
            /\ IsSanitized(response.testResults[k].file)
            /\ IsSanitized(response.testResults[k].testName)
            /\ IsSanitized(response.testResults[k].error)

\* C28: the handler answers 'passed' only when the runner ended without error,
\* its output does not hold "No tests found" and the parser's verdict on it is
\* passed; and when the invocation failed the answer is 'failed' whatever the
\* parser finds in the captured output.
C28_PassedOnly ==
    pc = "responded" =>
        /\ response.status = "passed" =>
               /\ invoked = 1
               /\ runner.exited
               /\ ~runner.error
               /\ ~Includes(RunnerOutput, S_NoTestsFound)
               /\ parseTestResults(RunnerOutput).passed
        /\ (invoked > 0 /\ runner.error) => response.status = "failed"

\* C28's case: the invocation failed with an output the parser finds passed,
\* and the answer is 'failed'
C28_Witness ==
    /\ pc = "responded"
    /\ invoked = 1
    /\ runner.error
    /\ parseTestResults(RunnerOutput).passed
    /\ response.status = "failed"

\* C29: when the requested index has no test declaration in the scanned file
\* the handler answers 'failed' with the single record 'Test Not Found', and
\* when the body cannot be parsed it answers HTTP 400 with the single record
\* 'Invalid Request'; in neither case is the runner ever started.
C29_NotFoundOrInvalid ==
    /\ NoDeclaration => invoked = 0
    /\ (NoDeclaration /\ pc = "responded") =>
           /\ response.status = "failed"
           /\ Len(response.testResults) = 1
           /\ response.testResults[1].testName = S_TestNotFound
    /\ ~request.json => invoked = 0
    /\ (~request.json /\ pc = "responded") =>
           /\ response.http = 400
           /\ response.status = "failed"
           /\ Len(response.testResults) = 1
           /\ response.testResults[1].testName = S_InvalidRequest

\* C29's case: the file declares one test, index 1 was asked for, and the
\* handler has answered
C29_Witness ==
    /\ NoDeclaration
    /\ pc = "responded"
    /\ Len(testDeclarations(fileContent)) = 1
    /\ request.index = 1
    /\ response.testResults[1].testName = S_TestNotFound
    /\ invoked = 0

-----------------------------------------------------------------------------
(* Two calls of parseTestResults in progress at once, as when two requests  *)
(* are being served.  A call runs to its end without suspending (the        *)
(* function has no await); the model lets the calls alternate after every   *)
(* step all the same, which is more than the runtime allows.                *)

Calls == {"first", "second"}

\* The most lines of a text parsed by these calls
MaxCallLines == 2

CallPool == {LineStartDuration, LineError, LineSkipped}

CallOutputs == {Join(ls) : ls \in UNION {[1..n -> CallPool] : n \in 1..MaxCallLines}}

\* The bindings before line 23 has run
EmptyFrame ==
    [lines |-> <<>>,
     hasTestOutput |-> FALSE,
     passed |-> FALSE,
     currentError |-> <<>>,
     currentTest |-> Null,
     results |-> <<>>,
     heap |-> <<>>,
     i |-> 1]

\* FrameOf with one set of bindings for every call, as bindings declared
\* outside the function would be
FrameOf_Shared(c) == "first"

\* Lines 23-28: lines, results, passed, currentError and currentTest are
\* declared in the function body, so each call has bindings of its own
FrameOf(c) == c

CallsInit ==
    /\ calls \in [Calls -> {[output |-> o, pc |-> "start",
                             returned |-> [passed |-> FALSE, results |-> <<>>]] :
                                o \in CallOutputs}]
    /\ frames = [c \in Calls |-> EmptyFrame]
    /\ ParseIdle
    /\ SanIdle
    /\ HandlerIdle
    /\ DashIdle

\* Lines 23-45 of a call
CallBegin ==
    \E c \in Calls :
        /\ calls[c].pc = "start"
        /\ LET f == EnterFrame(calls[c].output)
           IN  /\ frames' = [frames EXCEPT ![FrameOf(c)] = f]
               /\ calls' = [calls EXCEPT ![c].pc = IF f.hasTestOutput THEN "loop" ELSE "return"]
        /\ UNCHANGED <<dashVars, parseVars, sanVars, handlerVars>>

\* Lines 47-102 of a call: one turn of its loop
CallLine ==
    \E c \in Calls :
        /\ calls[c].pc = "loop"
        /\ frames[FrameOf(c)].i <= Len(frames[FrameOf(c)].lines)
        /\ frames' = [frames EXCEPT ![FrameOf(c)] = LoopBody(@)]
        /\ UNCHANGED <<dashVars, calls, parseVars, sanVars, handlerVars>>

\* Lines 104-107 of a call
CallLoopEnd ==
    \E c \in Calls :
        /\ calls[c].pc = "loop"
        /\ frames[FrameOf(c)].i > Len(frames[FrameOf(c)].lines)
        /\ frames' = [frames EXCEPT ![FrameOf(c)] = LeaveLoop(@)]
        /\ calls' = [calls EXCEPT ![c].pc = "return"]
        /\ UNCHANGED <<dashVars, parseVars, sanVars, handlerVars>>

\* Lines 109-121 of a call
CallReturn ==
    \E c \in Calls :
        /\ calls[c].pc = "return"
        /\ LET f == Finish(frames[FrameOf(c)])
           IN  /\ frames' = [frames EXCEPT ![FrameOf(c)] = f]
               /\ calls' = [calls EXCEPT ![c].pc = "done", ![c].returned = ReturnedOf(f)]
        /\ UNCHANGED <<dashVars, parseVars, sanVars, handlerVars>>

CallsNext ==
    \/ CallBegin
    \/ CallLine
    \/ CallLoopEnd
    \/ CallReturn

CallsSpec == CallsInit /\ [][CallsNext]_vars

-----------------------------------------------------------------------------
(* The listing handler of the pages API: handler of                         *)
(* src/UI/pages/api/list-tests.ts, lines 5-29                                *)

S_specTs ==
    <<".", "s", "p", "e", "c", ".", "t", "s">>

S_specJs ==
    <<".", "s", "p", "e", "c", ".", "j", "s">>

S_testDash ==
    <<"t", "e", "s", "t", "-">>

S_RunsTheTestIn ==
    <<"R", "u", "n", "s", " ", "t", "h", "e", " ", "t", "e", "s", "t", " ", "i", "n", " ">>

S_InterfaceTests ==
    <<"I", "n", "t", "e", "r", "f", "a", "c", "e", "/", "t", "e", "s", "t", "s", "/">>

NameLogin ==
    <<"l", "o", "g", "i", "n", ".", "s", "p", "e", "c", ".", "t", "s">>

NameAddItem ==
    <<"a", "d", "d", "-", "i", "t", "e", "m", "_", "x", ".", "s", "p", "e", "c", ".", "j", "s">>

NameNotes ==
    <<"n", "o", "t", "e", "s", ".", "t", "x", "t">>

NameTsx ==
    <<"a", ".", "s", "p", "e", "c", ".", "t", "s", "x">>

NameTwice ==
    <<"b", ".", "s", "p", "e", "c", ".", "j", "s", ".", "s", "p", "e", "c", ".", "t", "s">>

\* The most entries of the tests directory
MaxFiles == 3

NamePool == {NameLogin, NameAddItem, NameNotes, NameTsx, NameTwice}

\* The listings of a directory: its entries' names, each once, in some order
Listings ==
    {ns \in UNION {[1..n -> NamePool] : n \in 0..MaxFiles} :
        \A j, k \in 1..Len(ns) : j # k => ns[j] # ns[k]}

\* s.endsWith(t)
EndsWith(s, t) == StartsWithAt(s, Len(s) - Len(t) + 1, t)

\* IsSpecFile that looks for the suffix anywhere in the name
IsSpecFile_Includes(file) == Includes(file, S_specTs) \/ Includes(file, S_specJs)

\* Line 10: file.endsWith('.spec.ts') || file.endsWith('.spec.js')
IsSpecFile(file) == EndsWith(file, S_specTs) \/ EndsWith(file, S_specJs)

\* file.replace(/\.spec\.(ts|js)/, ''): the first occurrence is removed
WithoutSpecSuffix(file) ==
    LET hits == {p \in 1..Len(file) :
                    StartsWithAt(file, p, S_specTs) \/ StartsWithAt(file, p, S_specJs)}
    IN  IF hits = {}
        THEN file
        ELSE SubSeq(file, 1, Min(hits) - 1) \o SubSeq(file, Min(hits) + Len(S_specTs), Len(file))

\* s.replace(/[-_]/g, ' ')
WithSpaces(s) == [k \in 1..Len(s) |-> IF s[k] \in {"-", "_"} THEN " " ELSE s[k]]

\* c.toUpperCase() for a character of the alphabet
Upper(c) == IF CodePoint[c] \in 97..122 THEN Printable[CodePoint[c] - 32 - 31] ELSE c

\* name.charAt(0).toUpperCase() + name.slice(1)
Capitalized(s) == IF s = <<>> THEN <<>> ELSE <<Upper(s[1])>> \o Tail(s)

\* Lines 12-22: the entry of the file at index (from 0) of the filtered list
TestCase(file, index) ==
    [id |-> S_testDash \o IndexToString(index + 1),
     name |-> Capitalized(WithSpaces(WithoutSpecSuffix(file))),
     description |-> S_RunsTheTestIn \o file,
     filename |-> S_InterfaceTests \o file,
     status |-> "idle",
     lastRun |-> Null]

DirInit ==
    /\ files \in {[ok |-> TRUE, names |-> ns] : ns \in Listings}
                     \cup {[ok |-> FALSE, names |-> <<>>]}
    /\ pc = "start"
    /\ request = Null
    /\ fileContent = Null
    /\ runner = Null
    /\ invoked = 0
    /\ response = Null
    /\ output = <<>>
    /\ lines = <<>>
    /\ hasTestOutput = FALSE
    /\ passed = FALSE
    /\ currentError = <<>>
    /\ currentTest = Null
    /\ results = <<>>
    /\ heap = <<>>
    /\ i = 1
    /\ SanIdle
    /\ CallsIdle
    /\ DashIdle

\* Lines 9-24: the directory is read, filtered and mapped
ListFiles ==
    /\ pc = "start"
    /\ files.ok
    /\ LET testFiles == SelectSeq(files.names, IsSpecFile)
       IN  response' = [http |-> 200,
                        tests |-> [k \in 1..Len(testFiles) |-> TestCase(testFiles[k], k - 1)]]
    /\ pc' = "responded"
    /\ UNCHANGED <<dashVars, sanVars, callVars, request, fileContent, runner, invoked, files, output,
                   lines, hasTestOutput, passed, currentError, currentTest, results, heap, i>>

\* Lines 25-28: readdirSync throws
ListFilesFailed ==
    /\ pc = "start"
    /\ ~files.ok
    /\ response' = [http |-> 500, error |-> "Failed to list test files"]
    /\ pc' = "responded"
    /\ UNCHANGED <<dashVars, sanVars, callVars, request, fileContent, runner, invoked, files, output,
                   lines, hasTestOutput, passed, currentError, currentTest, results, heap, i>>

DirNext ==
    \/ ListFiles
    \/ ListFilesFailed

DirSpec == DirInit /\ [][DirNext]_vars

\* The name ends in .spec.ts or .spec.js
HasSpecEnding(name) ==
    /\ Len(name) >= 8
    /\ SubSeq(name, Len(name) - 7, Len(name)) \in {S_specTs, S_specJs}

\* C27: the listing handler returns exactly one entry for each file of the
\* tests directory whose name ends in .spec.ts or .spec.js and none for any
\* other file; the entries carry the ids test-1..test-n in directory order,
\* and status idle.
C27_Listing ==
    (pc = "responded" /\ files.ok) =>
        LET wanted == SelectSeq(files.names, HasSpecEnding)
        IN  /\ response.http = 200
            /\ Len(response.tests) = Len(wanted)
            /\ \A n \in 1..Len(wanted) :
                   /\ response.tests[n].filename = S_InterfaceTests \o wanted[n]
                   /\ response.tests[n].id = S_testDash \o <<Digits[n + 1]>>
                   /\ response.tests[n].status = "idle"

\* C27's case: a directory with a file of another kind between two test
\* files, listed
C27_Witness ==
    /\ pc = "responded"
    /\ files.ok
    /\ files.names = <<NameLogin, NameNotes, NameAddItem>>
    /\ Len(response.tests) = 2
    /\ response.tests[2].id = <<"t", "e", "s", "t", "-", "2">>
    /\ response.tests[2].filename = S_InterfaceTests \o NameAddItem

-----------------------------------------------------------------------------
(* The verdict and the records of one call *)

\* C31: whenever parseTestResults returns passed = true, no returned record
\* has status failed or timedOut.
C31_VerdictAgrees ==
    (pc = "done" /\ passed) =>
        \A n \in 1..Len(results) : Record(n).status \notin {"failed", "timedOut"}

(* C32: once an error fragment has set the status of the open record to     *)
(* failed, no later line before the next test-start line changes that       *)
(* status, a line holding "Timed out" or "skipped" included; of the open    *)
(* record only the retries, the duration and the error text can change, and *)
(* no other record changes.                                                 *)
C32_FailedAbsorbing ==
    [][(Scanning /\ currentTest # Null /\ ~IsTestStart(lines[i])
          /\ heap[IF currentTest = Null THEN 1 ELSE currentTest].status = "failed") =>
          /\ OnlyOpenTouched
          /\ heap'[currentTest].status = "failed"
          /\ Changed \subseteq {"retries", "duration", "error"}]_vars

\* A start line, an error line and then a timeout marker or a skip marker,
\* all three processed: the record is still failed
C32_Witness ==
    /\ pc = "loop"
    /\ i = 4
    /\ IsTestStart(lines[1])
    /\ lines[2] \in {LineError, LineExpect}
    /\ lines[3] \in {LineTimedOut, LineSkipped}
    /\ currentTest = 1
    /\ heap[1].status = "failed"

-----------------------------------------------------------------------------
(* The record list of the run-test handler's responses *)

\* C33: every response of the run-test handler, on every path, carries a
\* testResults list with at least one record.
C33_NonEmptyResults == pc = "responded" => Len(response.testResults) > 0

-----------------------------------------------------------------------------
(* The dashboard page (src/app/interface/page.tsx)                          *)
(*                                                                          *)
(* The state of the component is testSuites and its flags.  Each handler is *)
(* an async function: the part before its await runs when the button is     *)
(* clicked and sends a request; the rest runs when the fetch settles, with  *)
(* a response, with a response that is not ok, with a network error, or by  *)
(* the abort its timer fires.  The lastRun timestamps, which no decision    *)
(* reads, and the view state (expanded suites, search, filter) are left     *)
(* out.                                                                     *)

S_Logout == <<"L", "o", "g", "o", "u", "t">>

S_LOGOUT == <<"L", "O", "G", "O", "U", "T">>

S_b_spec_ts == <<"b", ".", "s", "p", "e", "c", ".", "t", "s">>

\* a suite in a folder, as path.relative names it on Windows
SuiteFileA == <<"t", "e", "s", "t", "s", "\\", "a", ".", "s", "p", "e", "c", ".", "t", "s">>

\* a suite at the project root
SuiteFileB == <<"b", ".", "s", "p", "e", "c", ".", "t", "s">>

\* The largest number of clicks that send a request in one behaviour
MaxRuns == 2

\* What /api/list-tests answers (list-tests/route.ts:72-88): every status is
\* 'pending'.  Two suites, of two tests and of one.
Listing ==
    <<[file |-> SuiteFileA, status |-> "pending",
       tests |-> <<[name |-> S_Login, file |-> SuiteFileA, index |-> 0, status |-> "pending"],
                   [name |-> S_Logout, file |-> SuiteFileA, index |-> 1, status |-> "pending"]>>],
      [file |-> SuiteFileB, status |-> "pending",
       tests |-> <<[name |-> S_Login, file |-> SuiteFileB, index |-> 0, status |-> "pending"]>>]>>

\* The statuses of the records each run endpoint can answer with
RunTestStatuses == {"passed", "failed", "skipped", "timedOut"}

RunAllTestsStatuses == {"passed", "failed", "skipped", "timedOut"}

RunAllProjectTestsStatuses == {"passed", "failed", "pending"}

\* A TestResponse, as far as the page reads it
TestResponse(status, message, testResults) ==
    [status |-> status, message |-> message, testResults |-> testResults]

TestResult(file, testName, status) == [file |-> file, testName |-> testName, status |-> status]

\* The responses of /api/run-test: no record, or one
RunTestResponses ==
    {TestResponse("passed", "Test executed successfully", rs) :
        rs \in {<<>>} \cup {<<TestResult(S_a_spec_ts, S_Login, st)>> : st \in RunTestStatuses}}
    \cup
    {TestResponse("failed", "Test failed", rs) :
        rs \in {<<>>} \cup {<<TestResult(S_a_spec_ts, S_Login, st)>> : st \in RunTestStatuses}}

\* The record lists of /api/run-all-tests: none, the generic record, one
\* record of a test, or a record for each of two tests
RunAllTestsResults ==
    {<<>>}
    \cup {<<TestResult(<<>>, GenericTestName, st)>> : st \in {"passed", "failed"}}
    \cup {<<TestResult(<<>>, S_Login, st)>> : st \in RunAllTestsStatuses}
    \cup {<<TestResult(<<>>, S_Login, a), TestResult(<<>>, S_LOGOUT, b)>> :
             a \in {"passed", "failed"}, b \in {"passed", "skipped"}}

RunAllTestsResponses ==
    {TestResponse("passed", "Tests executed successfully", rs) : rs \in RunAllTestsResults}
    \cup {TestResponse("failed", "Tests failed", rs) : rs \in RunAllTestsResults}

\* The record lists of /api/run-all-project-tests: none, one record, or one
\* of each file
RunAllProjectTestsResults ==
    {<<>>}
    \cup {<<TestResult(S_a_spec_ts, S_LOGOUT, st)>> : st \in RunAllProjectTestsStatuses}
    \cup {<<TestResult(S_b_spec_ts, S_Login, st)>> : st \in RunAllProjectTestsStatuses}
    \cup {<<TestResult(S_a_spec_ts, S_Login, a), TestResult(S_b_spec_ts, S_Login, b)>> :
             a \in {"passed", "failed"}, b \in {"passed", "pending"}}

RunAllProjectTestsResponses ==
    {TestResponse("passed", "All tests executed successfully", rs) :
        rs \in RunAllProjectTestsResults}
    \cup {TestResponse("failed", "Some tests failed", rs) : rs \in RunAllProjectTestsResults}

\* How a fetch can end without a usable response: a status that is not ok,
\* a network error, the abort of the timer
FetchFailures == {"not ok", "network error", "aborted"}

\* The message of the error the page catches then; the texts of the last two
\* are the browser's
FetchErrorMessage(failure, notOkMessage) ==
    CASE failure = "not ok" -> notOkMessage
      [] failure = "network error" -> "Failed to fetch"
      [] failure = "aborted" -> "The operation was aborted."

\* Lines 82-86
isAnyTestRunning ==
    \E s \in 1..Len(testSuites) :
        \/ testSuites[s].status = "running"
        \/ \E t \in 1..Len(testSuites[s].tests) : testSuites[s].tests[t].status = "running"

\* Line 89
isButtonsDisabled == isTestRunning \/ runningAllTests \/ isAnyTestRunning

\* updatedTests.some(test => test.status === status)
SomeTest(tests, status) == \E t \in 1..Len(tests) : tests[t].status = status

\* Lines 195-209: the test at the index of the file is shown running
TestMarkedRunning(suites, file, index) ==
    [s \in 1..Len(suites) |->
        IF suites[s].file = file
        THEN [suites[s] EXCEPT !.tests =
                 [t \in 1..Len(suites[s].tests) |->
                     IF suites[s].tests[t].index = index
                     THEN [suites[s].tests[t] EXCEPT !.status = "running"]
                     ELSE suites[s].tests[t]]]
        ELSE suites[s]]

\* Lines 241-251: the status the test takes from the response
TestStatusFrom(data) ==
    IF Len(data.testResults) > 0
    THEN IF data.testResults[1].status = "passed" THEN "passed" ELSE "failed"
    ELSE IF data.status = "passed" THEN "passed" ELSE "failed"

\* SuiteStatusAfterTest that looks at every test of the suite
SuiteStatusAfterTest_AllPassed(updatedTests) ==
    IF \A t \in 1..Len(updatedTests) : updatedTests[t].status = "passed"
    THEN "passed"
    ELSE "failed"

\* Lines 262-263
SuiteStatusAfterTest(updatedTests) ==
    IF SomeTest(updatedTests, "failed") THEN "failed" ELSE "passed"

\* Lines 235-274: the response of a single run is taken in
TestSettled(suites, file, index, data) ==
    [s \in 1..Len(suites) |->
        IF suites[s].file = file
        THEN LET updatedTests ==
                     [t \in 1..Len(suites[s].tests) |->
                         IF suites[s].tests[t].index = index
                         THEN [suites[s].tests[t] EXCEPT !.status = TestStatusFrom(data)]
                         ELSE suites[s].tests[t]]
             IN  [suites[s] EXCEPT !.status = SuiteStatusAfterTest(updatedTests),
                                   !.tests = updatedTests]
        ELSE suites[s]]

\* Lines 284-306: the fetch of a single run failed
TestFailed(suites, file, index) ==
    [s \in 1..Len(suites) |->
        IF suites[s].file = file
        THEN LET updatedTests ==
                     [t \in 1..Len(suites[s].tests) |->
                         IF suites[s].tests[t].index = index
                         THEN [suites[s].tests[t] EXCEPT !.status = "failed"]
                         ELSE suites[s].tests[t]]
             IN  [suites[s] EXCEPT !.status = IF SomeTest(updatedTests, "failed")
                                              THEN "failed"
                                              ELSE suites[s].status,
                                   !.tests = updatedTests]
        ELSE suites[s]]

\* The suite with every test given the one status
WithAllTests(suite, ofSuite, ofTests) ==
    [suite EXCEPT !.status = ofSuite,
                  !.tests = [t \in 1..Len(suite.tests) |->
                                [suite.tests[t] EXCEPT !.status = ofTests]]]

\* Lines 371-387: the suite of the file and its tests are shown running
SuiteMarkedRunning(suites, file) ==
    [s \in 1..Len(suites) |->
        IF suites[s].file = file
        THEN WithAllTests(suites[s], "running", "running")
        ELSE suites[s]]

\* data.testResults.find(result => result.testName.toLowerCase() ===
\* test.name.toLowerCase()): the position of the first such record, or 0
FindByName(testResults, name) ==
    LET hits == {k \in 1..Len(testResults) :
                    ToLowerCase(testResults[k].testName) = ToLowerCase(name)}
    IN  IF hits = {} THEN 0 ELSE CHOOSE k \in hits : \A j \in hits : k <= j

\* Lines 416-448: the statuses the tests of the suite take from the response
TestsAfterRunAll(tests, data) ==
    IF Len(data.testResults) > 0
    THEN IF Len(data.testResults) = 1 /\ data.testResults[1].testName = GenericTestName
         THEN [t \in 1..Len(tests) |-> [tests[t] EXCEPT !.status = data.testResults[1].status]]
         ELSE [t \in 1..Len(tests) |->
                  LET found == FindByName(data.testResults, tests[t].name)
                  IN  [tests[t] EXCEPT !.status = IF found # 0
                                                  THEN data.testResults[found].status
                                                  ELSE "failed"]]
    ELSE [t \in 1..Len(tests) |-> [tests[t] EXCEPT !.status = "failed"]]

\* Lines 413-462: the response of a suite run is taken in
SuiteSettled(suites, file, data) ==
    [s \in 1..Len(suites) |->
        IF suites[s].file = file
        THEN [suites[s] EXCEPT !.status = IF data.status = "passed" THEN "passed" ELSE "failed",
                               !.tests = TestsAfterRunAll(suites[s].tests, data)]
        ELSE suites[s]]

\* Lines 472-488: the fetch of a suite run failed
SuiteFailed(suites, file) ==
    [s \in 1..Len(suites) |->
        IF suites[s].file = file
        THEN WithAllTests(suites[s], "failed", "failed")
        ELSE suites[s]]

\* Lines 529-538: every suite and every test is shown running
AllMarkedRunning(suites) ==
    [s \in 1..Len(suites) |-> WithAllTests(suites[s], "running", "running")]

\* Line 562: suite.file.split('\\').pop() || suite.file
SuiteFileName(file) ==
    LET bs == {k \in 1..Len(file) : file[k] = "\\"}
        last == IF bs = {} THEN 0 ELSE CHOOSE k \in bs : \A j \in bs : j <= k
        tail == SubSeq(file, last + 1, Len(file))
    IN  IF tail # <<>> THEN tail ELSE file

\* s.replace(/\s+/g, ' ')
RECURSIVE CollapseSpaces(_)
CollapseSpaces(s) ==
    IF s = <<>>
    THEN <<>>
    ELSE IF IsWhiteSpace(s[1])
    THEN <<" ">> \o CollapseSpaces(SubSeq(s, SpaceRunEnd(s, 1) + 1, Len(s)))
    ELSE <<s[1]>> \o CollapseSpaces(Tail(s))

\* Lines 575-576: name.toLowerCase().replace(/\s+/g, ' ').trim()
NormalizedName(name) == Trim(CollapseSpaces(ToLowerCase(name)))

\* Lines 577-579 (every string includes the empty one)
NamesMatch(testName, resultName) ==
    LET normalizedTestName == NormalizedName(testName)
        normalizedResultName == NormalizedName(resultName)
    IN  \/ normalizedTestName = normalizedResultName
        \/ normalizedTestName = <<>>
        \/ normalizedResultName = <<>>
        \/ Includes(normalizedResultName, normalizedTestName)
        \/ Includes(normalizedTestName, normalizedResultName)

\* Lines 565-569: the records of the suite's file
SuiteResults(testResults, file) ==
    SelectSeq(testResults, LAMBDA result : result.file = SuiteFileName(file))

\* Lines 574-580: the position of the first matching record, or 0
FindMatching(suiteResults, name) ==
    LET hits == {k \in 1..Len(suiteResults) : NamesMatch(name, suiteResults[k].testName)}
    IN  IF hits = {} THEN 0 ELSE CHOOSE k \in hits : \A j \in hits : k <= j

\* Lines 605-614
SuiteStatusOf(updatedTests) ==
    IF SomeTest(updatedTests, "failed") THEN "failed"
    ELSE IF SomeTest(updatedTests, "running") THEN "running"
    ELSE IF SomeTest(updatedTests, "pending") THEN "pending"
    ELSE "passed"

\* Lines 559-623: the response of a whole-project run is taken in
ProjectSettled(suites, data) ==
    [s \in 1..Len(suites) |->
        LET suiteResults == SuiteResults(data.testResults, suites[s].file)
            isInFailedSuite ==
                \E k \in 1..Len(suiteResults) : suiteResults[k].status = "failed"
            updatedTests ==
                [t \in 1..Len(suites[s].tests) |->
                    LET found == FindMatching(suiteResults, suites[s].tests[t].name)
                    IN  [suites[s].tests[t] EXCEPT
                            !.status = IF found # 0 THEN suiteResults[found].status
                                       ELSE IF isInFailedSuite THEN "failed"
                                       ELSE "pending"]]
        IN  [suites[s] EXCEPT !.status = SuiteStatusOf(updatedTests), !.tests = updatedTests]]

\* FailedIfRunning that leaves a running status as it is
FailedIfRunning_Kept(status) == status

\* Lines 635, 639: status === 'running' ? 'failed' : status
FailedIfRunning(status) == IF status = "running" THEN "failed" ELSE status

\* Lines 633-642: the fetch of a whole-project run failed
ProjectFailed(suites) ==
    [s \in 1..Len(suites) |->
        [suites[s] EXCEPT !.status = FailedIfRunning(suites[s].status),
                          !.tests = [t \in 1..Len(suites[s].tests) |->
                                        [suites[s].tests[t] EXCEPT
                                            !.status = FailedIfRunning(@)]]]]

\* a || b on the texts of messages
OrElseText(a, b) == IF a # "" THEN a ELSE b

\* A request the page has sent
Sent(kind, file, index) == [id |-> started + 1, kind |-> kind, file |-> file, index |-> index]

\* The requests of a kind the page waits for
Waiting(kind) == {r \in inFlight : r.kind = kind}

\* The page after it mounted: nothing listed yet, and the effect of lines
\* 173-175 has called fetchTests
DashInit ==
    /\ testSuites = <<>>
    /\ isLoading = TRUE
    /\ isRefreshing = TRUE
    /\ errorShown = ""
    /\ runningAllTests = FALSE
    /\ isTestRunning = FALSE
    /\ inFlight = {[id |-> 0, kind |-> "list", file |-> <<>>, index |-> -1]}
    /\ started = 0
    /\ ParseIdle
    /\ SanIdle
    /\ HandlerIdle
    /\ CallsIdle

\* Lines 133-147, from the button of lines 779-781: 'Get All Tests' is clicked
fetchTests ==
    /\ ~isLoading
    /\ ~isButtonsDisabled
    /\ started < MaxRuns
    /\ isRefreshing' = TRUE
    /\ errorShown' = ""
    /\ inFlight' = inFlight \cup {Sent("list", <<>>, -1)}
    /\ started' = started + 1
    /\ UNCHANGED <<parseVars, sanVars, handlerVars, callVars, testSuites, isLoading,
                   runningAllTests, isTestRunning>>

\* Lines 149-170: the listing arrived
ListingArrived ==
    /\ \E r \in Waiting("list") : inFlight' = inFlight \ {r}
    /\ testSuites' = Listing
    /\ isLoading' = FALSE
    /\ isRefreshing' = FALSE
    /\ UNCHANGED <<parseVars, sanVars, handlerVars, callVars, errorShown, runningAllTests,
                   isTestRunning, started>>

\* Lines 144-170: the listing request failed
ListingFailed ==
    /\ \E r \in Waiting("list") : inFlight' = inFlight \ {r}
    /\ \E failure \in FetchFailures :
           errorShown' =
               IF failure = "not ok"
               THEN "Failed to fetch tests"
               ELSE "Failed to connect to the server. Please check if the server is running."
    /\ isLoading' = FALSE
    /\ isRefreshing' = FALSE
    /\ UNCHANGED <<parseVars, sanVars, handlerVars, callVars, testSuites, runningAllTests,
                   isTestRunning, started>>

\* Lines 189-223, from the buttons of lines 700-701 and 935-936: a test that
\* is not shown running is run
handleRunTest ==
    /\ ~isLoading
    /\ started < MaxRuns
    /\ \E s \in 1..Len(testSuites) :
           \E t \in 1..Len(testSuites[s].tests) :
               LET test == testSuites[s].tests[t]
               IN  /\ test.status # "running"
                   /\ testSuites' = TestMarkedRunning(testSuites, test.file, test.index)
                   /\ inFlight' = inFlight \cup {Sent("test", test.file, test.index)}
    /\ isTestRunning' = TRUE
    /\ started' = started + 1
    /\ UNCHANGED <<parseVars, sanVars, handlerVars, callVars, isLoading, isRefreshing,
                   errorShown, runningAllTests>>

\* Lines 225-279 and 341-343: the response of a single run arrived
RunTestSettled ==
    /\ \E r \in Waiting("test") :
           \E data \in RunTestResponses :
               /\ inFlight' = inFlight \ {r}
               /\ testSuites' = TestSettled(testSuites, r.file, r.index, data)
               /\ errorShown' = IF data.status = "failed"
                                THEN OrElseText(data.message, "Test failed")
                                ELSE errorShown
    /\ isTestRunning' = FALSE
    /\ UNCHANGED <<parseVars, sanVars, handlerVars, callVars, isLoading, isRefreshing,
                   runningAllTests, started>>

\* Lines 227-229, 281-309 and 341-343: the fetch of a single run failed
RunTestFailed ==
    /\ \E r \in Waiting("test") :
           \E failure \in FetchFailures :
               /\ inFlight' = inFlight \ {r}
               /\ testSuites' = TestFailed(testSuites, r.file, r.index)
               /\ errorShown' = FetchErrorMessage(failure, "Failed to run test")
    /\ isTestRunning' = FALSE
    /\ UNCHANGED <<parseVars, sanVars, handlerVars, callVars, isLoading, isRefreshing,
                   runningAllTests, started>>

\* Lines 365-401, from the button of lines 891-892: a suite that is not shown
\* running is run
handleRunAllTests ==
    /\ ~isLoading
    /\ started < MaxRuns
    /\ \E s \in 1..Len(testSuites) :
           /\ testSuites[s].status # "running"
           /\ testSuites' = SuiteMarkedRunning(testSuites, testSuites[s].file)
           /\ inFlight' = inFlight \cup {Sent("suite", testSuites[s].file, -1)}
    /\ isTestRunning' = TRUE
    /\ started' = started + 1
    /\ UNCHANGED <<parseVars, sanVars, handlerVars, callVars, isLoading, isRefreshing,
                   errorShown, runningAllTests>>

\* Lines 403-467 and 517-519: the response of a suite run arrived
RunAllTestsSettled ==
    /\ \E r \in Waiting("suite") :
           \E data \in RunAllTestsResponses :
               /\ inFlight' = inFlight \ {r}
               /\ testSuites' = SuiteSettled(testSuites, r.file, data)
               /\ errorShown' = IF data.status = "failed"
                                THEN OrElseText(data.message, "Tests failed")
                                ELSE errorShown
    /\ isTestRunning' = FALSE
    /\ UNCHANGED <<parseVars, sanVars, handlerVars, callVars, isLoading, isRefreshing,
                   runningAllTests, started>>

\* Lines 405-407, 469-491 and 517-519: the fetch of a suite run failed
RunAllTestsFailed ==
    /\ \E r \in Waiting("suite") :
           \E failure \in FetchFailures :
               /\ inFlight' = inFlight \ {r}
               /\ testSuites' = SuiteFailed(testSuites, r.file)
               /\ errorShown' = FetchErrorMessage(failure, "Failed to run tests")
    /\ isTestRunning' = FALSE
    /\ UNCHANGED <<parseVars, sanVars, handlerVars, callVars, isLoading, isRefreshing,
                   runningAllTests, started>>

\* Lines 522-547, from the button of lines 801-802: 'Run All Project Tests'
\* is clicked
handleRunAllProjectTests ==
    /\ ~isLoading
    /\ ~isButtonsDisabled
    /\ started < MaxRuns
    /\ isTestRunning' = TRUE
    /\ runningAllTests' = TRUE
    /\ testSuites' = AllMarkedRunning(testSuites)
    /\ inFlight' = inFlight \cup {Sent("project", <<>>, -1)}
    /\ started' = started + 1
    /\ UNCHANGED <<parseVars, sanVars, handlerVars, callVars, isLoading, isRefreshing,
                   errorShown>>

\* Lines 549-628 and 650-653: the response of a whole-project run arrived
RunAllProjectTestsSettled ==
    /\ \E r \in Waiting("project") :
           \E data \in RunAllProjectTestsResponses :
               /\ inFlight' = inFlight \ {r}
               /\ testSuites' = ProjectSettled(testSuites, data)
               /\ errorShown' = IF data.status = "failed"
                                THEN OrElseText(data.message, "Some tests failed")
                                ELSE errorShown
    /\ runningAllTests' = FALSE
    /\ isTestRunning' = FALSE
    /\ UNCHANGED <<parseVars, sanVars, handlerVars, callVars, isLoading, isRefreshing,
                   started>>

\* Lines 551-553, 630-645 and 650-653: the fetch of a whole-project run failed
RunAllProjectTestsFailed ==
    /\ \E r \in Waiting("project") :
           \E failure \in FetchFailures :
               /\ inFlight' = inFlight \ {r}
               /\ testSuites' = ProjectFailed(testSuites)
               /\ errorShown' = FetchErrorMessage(failure, "Failed to run tests")
    /\ runningAllTests' = FALSE
    /\ isTestRunning' = FALSE
    /\ UNCHANGED <<parseVars, sanVars, handlerVars, callVars, isLoading, isRefreshing,
                   started>>

\* Lines 94-96, 102-104 and 767: the notification is dismissed, by its timer
\* or by its close button
ErrorDismissed ==
    /\ errorShown # ""
    /\ errorShown' = ""
    /\ UNCHANGED <<parseVars, sanVars, handlerVars, callVars, testSuites, isLoading,
                   isRefreshing, runningAllTests, isTestRunning, inFlight, started>>

\* The steps that end a request
DashSettle ==
    \/ ListingArrived
    \/ ListingFailed
    \/ RunTestSettled
    \/ RunTestFailed
    \/ RunAllTestsSettled
    \/ RunAllTestsFailed
    \/ RunAllProjectTestsSettled
    \/ RunAllProjectTestsFailed

DashNext ==
    \/ fetchTests
    \/ handleRunTest
    \/ handleRunAllTests
    \/ handleRunAllProjectTests
    \/ ErrorDismissed
    \/ ListingArrived
    \/ ListingFailed
    \/ RunTestSettled
    \/ RunTestFailed
    \/ RunAllTestsSettled
    \/ RunAllTestsFailed
    \/ RunAllProjectTestsSettled
    \/ RunAllProjectTestsFailed

DashSpec == DashInit /\ [][DashNext]_vars

\* Every fetch of the page carries the signal of an AbortController whose
\* timer aborts it (lines 140, 213, 391, 541), so a request that is waiting
\* does not wait for ever
DashLive == DashSpec /\ WF_vars(DashSettle)

-----------------------------------------------------------------------------
(* Claims about the dashboard page *)

\* No request is waiting for its answer
Quiet == inFlight = {}

\* The run requests (single test, suite, whole project) waiting for an answer
RunsInFlight == {r \in inFlight : r.kind # "list"}

\* The run request with the identity n is waiting for its answer
RunInFlight(n) == \E r \in RunsInFlight : r.id = n

(* C34: every started run (single test, suite, whole project) eventually    *)
(* settles, whichever way its fetch ends, and whenever no run request is in *)
(* flight isTestRunning and runningAllTests are false and no test or suite  *)
(* is in status 'running', under any interleaving of clicks on enabled      *)
(* buttons and arrivals.                                                    *)
C34_RunsSettle ==
    /\ [](RunsInFlight = {} => ~isTestRunning /\ ~runningAllTests /\ ~isAnyTestRunning)
    /\ \A n \in 1..MaxRuns : RunInFlight(n) ~> ~RunInFlight(n)

\* Runs were started, the last of them was ended by the abort of its timer,
\* and nothing is waiting or shown running any more
C34_Witness ==
    /\ started = MaxRuns
    /\ inFlight = {}
    /\ errorShown = "The operation was aborted."
    /\ ~isTestRunning
    /\ ~isAnyTestRunning

\* The statuses shown: of the suites and of their tests
ShownStatuses ==
    {testSuites[s].status : s \in 1..Len(testSuites)}
        \cup UNION {{testSuites[s].tests[t].status : t \in 1..Len(testSuites[s].tests)} :
                       s \in 1..Len(testSuites)}

\* C37: at all times every test status and suite status held in the
\* dashboard state is one of pending, running, passed, failed, whatever
\* record statuses the run endpoints return.
C37_StatusVocabulary == ShownStatuses \subseteq {"pending", "running", "passed", "failed"}

\* C35: whenever at least one run request (single test, suite or whole
\* project) is in flight, the global buttons 'Get All Tests' and 'Run All
\* Project Tests' are disabled.
C35_ButtonsDisabled == RunsInFlight # {} => isButtonsDisabled

\* C36: a suite shown with status 'passed' has every one of its tests in
\* status 'passed'.
C36_PassedSuite ==
    \A s \in 1..Len(testSuites) :
        testSuites[s].status = "passed" =>
            \A t \in 1..Len(testSuites[s].tests) : testSuites[s].tests[t].status = "passed"

-----------------------------------------------------------------------------
(* The scan of the listing endpoint (src/app/api/list-tests/route.ts) and   *)
(* the scan of the run-test handler                                         *)

\* /test\(['"](.*?)['"]/ at p: the position of the closing quote, or 0 when
\* the expression does not match at p.  The lazy group ends at the first
\* quote, and the dot does not pass a line terminator.
ListedDeclarationEnd(s, p) ==
    IF ~(StartsWithAt(s, p, S_test \o <<"(">>) /\ p + 5 <= Len(s) /\ IsQuote(s[p + 5]))
    THEN 0
    ELSE LET closing == {q \in (p + 6)..Len(s) :
                            /\ IsQuote(s[q])
                            /\ \A k \in (p + 6)..(q - 1) :
                                   ~IsQuote(s[k]) /\ ~IsLineTerminator(s[k])}
         IN  IF closing = {} THEN 0 ELSE CHOOSE q \in closing : TRUE

\* Array.from(content.matchAll(...)), searched from p on: the captured names
RECURSIVE ListedFrom(_, _)
ListedFrom(s, p) ==
    IF p > Len(s)
    THEN <<>>
    ELSE IF ListedDeclarationEnd(s, p) = 0
    THEN ListedFrom(s, p + 1)
    ELSE <<SubSeq(s, p + 6, ListedDeclarationEnd(s, p) - 1)>>
             \o ListedFrom(s, ListedDeclarationEnd(s, p) + 1)

\* list-tests/route.ts:72-80: the names of the tests the listing reports for
\* a file of this content, in the order of their indexes
listedTests(content) ==
    LET testMatches == ListedFrom(content, 1)
    IN  [k \in 1..Len(testMatches) |-> listTestsSanitizeString(testMatches[k])]

\* C38: for every test file and every index the listing reports for it, the
\* declaration the run-test handler selects for the file and the index is the
\* declaration the listing reported at that index.
C38_SameDeclaration ==
    (pc # "start" /\ request.json /\ fileContent # Missing
        /\ request.index \in 0..(Len(listedTests(fileContent)) - 1)) =>
        /\ HasTest(testDeclarations(fileContent), request.index)
        /\ listTestsSanitizeString(TestNameAt(testDeclarations(fileContent), request.index))
               = listedTests(fileContent)[request.index + 1]

=============================================================================
